---------------------------- MODULE Spec2Model ----------------------------
(***************************************************************************)
(* A model of slsh's renderer (slsh_engine/renderer.rs) as driven by the   *)
(* main loop (slsh_engine/main_loop.rs).                                   *)
(*                                                                         *)
(* One CPU thread runs MainLoop::run: poll events, update the per-frame    *)
(* data, Renderer::present (begin_frame, record_commands_to_buffer,        *)
(* end_frame), and on exit the Renderer is dropped.  Every Vulkan call of  *)
(* the thread is one step of `pc`.  The GPU and the presentation engine    *)
(* run concurrently with it: they are the actions AcquireSignal,           *)
(* GpuExecute, GpuComplete and PresentExecute, which act on the work the   *)
(* thread has queued.                                                      *)
(*                                                                         *)
(* What the model takes from the Vulkan API and not from the repository:   *)
(*   - a queue starts and completes its submissions in submission order;   *)
(*   - a fence is signaled when the submission that holds it completes;    *)
(*   - a semaphore wait consumes one signal; the count of unconsumed       *)
(*     signals of each semaphore is kept, so that a second signal of a     *)
(*     semaphore whose first is unconsumed is visible in the state;        *)
(*   - presentation requests of one queue are processed in order;          *)
(*   - acquire_next_image returns an image index at once and signals its   *)
(*     semaphore later, when the image can be written;                     *)
(*   - device_wait_idle returns once every queue is idle.                  *)
(*   - a surface has no fixed extent when both dimensions of its current   *)
(*     extent are u32::MAX, and a buffer's memory type bits name only      *)
(*     memory types the device has.                                        *)
(* Each call checked by check_err may fail; device_wait_idle in teardown   *)
(* and the device calls of Renderer::new are modelled on their success     *)
(* path, while the assertions and the Option checks of Renderer::new       *)
(* (no device, u32::clamp, pack_to_u32s, find_memory_type) can panic.      *)
(*                                                                         *)
(* Spec follows the main loop from the state Renderer::new leaves.  The    *)
(* parts of Renderer::new are followed by specifications of their own,     *)
(* each from every input of its bounds:                                    *)
(*   SpecDevice, SpecQueueFamilies: pick_phys_device, create_logical_device*)
(*   SpecSwapchain: choose_swapchain_format, create_swapchain, the image   *)
(*                  views and the framebuffers;                            *)
(*   SpecExtent:    the same steps, for choose_swapchain_extent;           *)
(*   SpecCreateInfo: the same steps, for create_swapchain's create_info;   *)
(*   SpecUpload:    create_buffer_of_type, with the device executing the   *)
(*                  copy concurrently;                                     *)
(*   SpecMemoryType: find_memory_type in create_buffer;                    *)
(*   SpecMesh:      Mesh::into_mesh_data, with its shader modules;         *)
(*   SpecGeometry:  create_grid_mesh and create_crosshair_mesh.            *)
(* FairSpec is Spec with a thread that goes on inside present(), a device  *)
(* that completes what is submitted and a presentation engine that hands   *)
(* images back.  The input handler (slsh_engine/input.rs) and the camera   *)
(* (slsh_engine/camera.rs) are followed under any events and any calls by  *)
(* SpecInput and SpecCamera; in Spec they stay as MainLoop::new made them. *)
(***************************************************************************)
EXTENDS Integers, Sequences, FiniteSets, TLC

\* renderer.rs:37
FRAMES_IN_FLIGHT == 2

\* Number of frames the main loop may present before it has to exit.
MaxFrames == 4

\* Number of images the swapchain was created with.
NumImages == 3

Slots == 0 .. (FRAMES_IN_FLIGHT - 1)

Images == 0 .. (NumImages - 1)

\* Handles of the per-slot semaphore vectors of Renderer.
image_available(s) == <<"image_available", s>>

render_finished(s) == <<"render_finished", s>>

Semaphores == {image_available(s) : s \in Slots} \cup {render_finished(s) : s \in Slots}

\* The meshes of Renderer::new, in the order of `vec![grid, crosshair]`.
Meshes == <<"grid", "crosshair">>

\* The descriptor set value of a command buffer that has no recorded commands.
NoDescSet == -1

\* The framebuffer of a command buffer that has no recorded render pass.
NoFramebuffer == <<"framebuffer", "null">>

VARIABLES
    pc,               \* the CPU thread's position
    running,          \* MainLoop.running
    current_frame,    \* Renderer.current_frame
    frame,            \* number of present() calls that returned (history)
    command_buffer,   \* present()'s local: slot of the command buffer taken
    image_index,      \* present()'s local: the image index begin_frame returned
    is_rendering,     \* fence of each slot: TRUE = signaled
    semaphore,        \* unconsumed signals of each semaphore
    acquire_pending,  \* semaphores an acquire will signal and has not yet
    command_buffers,  \* each slot's command buffer: lifecycle state, bound set
    graphics_queue,   \* submissions queued or executing, oldest first
    present_queue,    \* presentation requests not yet processed, oldest first
    swapchain_images, \* per image: "free", "acquired" or "queued"
    completed,        \* frames whose submission has completed (history)
    presented,        \* frames whose image has been presented (history)
    waited,           \* slots whose fence wait returned, in order (history)
    ubo_written,      \* slot whose uniform buffer update_ubo wrote last (history)
    out_of_date,      \* begin_frame's `_out_of_date`: the flag its acquire
                      \* returned with the image index
    failed_call,      \* the call whose error made check_err panic, or "none"
    drop_step,        \* index of the next call of the teardown
    teardown_log      \* calls the teardown has issued, in order

\* The locals of Renderer::new and of the functions it calls.
VARIABLES
    target_os,              \* cfg!(target_os): the platform of the build
    phys_devices,           \* enumerate_physical_devices(): the devices, in order
    phys_device_infos,      \* gather_phys_device_infos: the suitable devices
    phys_device_info,       \* the PhysDeviceInfo pick_phys_device returned
    device                  \* the logical device create_logical_device made

device_vars == <<target_os, phys_devices, phys_device_infos, phys_device_info, device>>

VARIABLES
    formats,                \* get_physical_device_surface_formats(): the formats
    modes,                  \* get_physical_device_surface_present_modes(): the modes
    swapchain_format,       \* the vk::SurfaceFormatKHR choose_swapchain_format returned
    present_mode,           \* create_swapchain's local: the present mode chosen
    swapchain_image_views,  \* Renderer.swapchain_image_views
    framebuffers,           \* Renderer.framebuffers
    surface_capabilities,   \* get_surface_capabilities(): the vk::SurfaceCapabilitiesKHR
    window,                 \* the Window: its width and height
    swapchain_extent,       \* the vk::Extent2D choose_swapchain_extent returned
    create_info             \* create_swapchain's vk::SwapchainCreateInfoKHR

swapchain_vars == <<formats, modes, swapchain_format, present_mode,
                    swapchain_image_views, framebuffers, surface_capabilities,
                    window, swapchain_extent, create_info>>

\* The locals of create_buffer_of_type and of the functions it calls.
VARIABLES
    data,                   \* the slice to upload: a sequence of values of T, each
                            \* the sequence of its bytes
    size_of_T,              \* size_of::<T>()
    staging_buffer,         \* the staging buffer: "null", "alive" or "destroyed"
    staging_memory,         \* its memory: state and bytes
    buffer,                 \* the destination buffer: state, size and usage
    memory,                 \* its memory: state and bytes
    cmd_buffer,             \* copy_buffers' one-shot command buffer
    queue,                  \* the submissions to `queue` that have not completed
    copied                  \* the copy command has completed (history)

upload_vars == <<data, size_of_T, staging_buffer, staging_memory, buffer, memory,
                 cmd_buffer, queue, copied>>

\* The locals of Mesh::into_mesh_data and of the functions it calls.
VARIABLES
    vert_shader_compiled,   \* the bytes of the vertex shader
    frag_shader_compiled,   \* the bytes of the fragment shader
    target_endian,          \* the byte order of the build's target
    mesh_created,           \* the device objects created so far, in order
    shader_modules          \* create_graphics_pipeline's shader modules

mesh_vars == <<vert_shader_compiled, frag_shader_compiled, target_endian,
               mesh_created, shader_modules>>

\* The parameters and the result of find_memory_type in create_buffer.
VARIABLES
    mem_properties,         \* the memory types of the physical device, in order
    req_type,               \* mem_requirements.memory_type_bits
    req_properties,         \* the vk::MemoryPropertyFlags create_buffer was given
    memory_type_index       \* what find_memory_type returned: an index or None

memory_type_vars == <<mem_properties, req_type, req_properties, memory_type_index>>

\* The arguments and the results of the two mesh functions of Renderer::new.
VARIABLES
    grid_res,               \* create_grid_mesh's `res`
    grid_cells,             \* create_grid_mesh's `cells`
    crosshair_length,       \* create_crosshair_mesh's `length`
    crosshair_thickness,    \* create_crosshair_mesh's `thickness`
    grid,                   \* the Mesh create_grid_mesh returned, or NoMesh
    crosshair               \* the Mesh create_crosshair_mesh returned, or NoMesh

geometry_vars == <<grid_res, grid_cells, crosshair_length, crosshair_thickness,
                   grid, crosshair>>

\* The fields of the InputHandler.
VARIABLES
    mouse_prev_x,
    mouse_prev_y,
    mouse_diff_x,
    mouse_diff_y,
    forward,
    right,
    event                   \* the event the handler was given last (history)

input_vars == <<mouse_prev_x, mouse_prev_y, mouse_diff_x, mouse_diff_y, forward,
                right, event>>

\* The fields of the Camera that view() depends on.
VARIABLES
    pitch,
    yaw,
    roll,
    position,
    view,                   \* the cached view matrix
    view_needs_recalc,
    camera_op               \* the method called last (history)

camera_vars == <<pitch, yaw, roll, position, view, view_needs_recalc, camera_op>>

\* Every variable of the tick: the input handler and the camera.
tick_vars == <<input_vars, camera_vars>>

\* What the surface and the window give to Renderer::new.
swapchain_inputs == <<formats, modes, surface_capabilities, window>>

\* Every variable of Renderer::new.
setup_vars == <<device_vars, swapchain_vars, upload_vars, mesh_vars, memory_type_vars,
                geometry_vars, tick_vars>>

\* Every variable of the main loop but the thread's position.
loop_vars == <<running, current_frame, frame, command_buffer, image_index,
               is_rendering, semaphore, acquire_pending, command_buffers,
               graphics_queue, present_queue, swapchain_images, completed,
               presented, waited, ubo_written, out_of_date, failed_call, drop_step,
               teardown_log>>

vars == <<pc, loop_vars, setup_vars>>

\* What the steps of one part of Renderer::new leave alone.
other_than_device == <<loop_vars, swapchain_vars, upload_vars, mesh_vars,
    memory_type_vars, geometry_vars, tick_vars>>

other_than_swapchain == <<loop_vars, device_vars, upload_vars, mesh_vars,
    memory_type_vars, geometry_vars, tick_vars>>

other_than_upload == <<loop_vars, device_vars, swapchain_vars, mesh_vars,
    memory_type_vars, geometry_vars, tick_vars>>

other_than_memory_type == <<loop_vars, device_vars, swapchain_vars, upload_vars,
                           mesh_vars, geometry_vars, tick_vars>>

other_than_mesh == <<loop_vars, device_vars, swapchain_vars, upload_vars,
    memory_type_vars, geometry_vars, tick_vars>>

other_than_geometry == <<loop_vars, device_vars, swapchain_vars, upload_vars,
    mesh_vars, memory_type_vars, tick_vars>>

other_than_input == <<loop_vars, device_vars, swapchain_vars, upload_vars,
    mesh_vars, memory_type_vars, geometry_vars, camera_vars>>

other_than_camera == <<loop_vars, device_vars, swapchain_vars, upload_vars,
    mesh_vars, memory_type_vars, geometry_vars, input_vars>>

cpu_frame_vars == <<current_frame, frame, command_buffer, image_index, waited,
                    ubo_written, out_of_date>>

gpu_vars == <<is_rendering, semaphore, acquire_pending, graphics_queue,
              present_queue, swapchain_images, completed, presented>>

teardown_vars == <<drop_step, teardown_log>>

Results == {"Ok", "Err"}

\* The positions of the thread inside Renderer::present.
FramePcs == {"present", "wait_for_fences", "acquire_next_image", "reset_fences",
             "reset_command_buffer", "begin_command_buffer", "record_draws",
             "end_command_buffer", "queue_submit", "queue_present"}

-----------------------------------------------------------------------------
(* Helpers of the frame code *)

\* CheckVkError::check_err: the value on Ok, a panic on Err.
check_err_Ignore(res, next) == next

check_err(res, next) == IF res = "Ok" THEN next ELSE "panicked"

Failed(res, action) == IF res = "Ok" THEN failed_call ELSE action

\* create_sync_objects: `create_fence(device, true)`.
FenceCreatedSignaled_Unsignaled == FALSE

FenceCreatedSignaled == TRUE

\* wait_for_fences(&[fence], true, u64::MAX): returns Ok once the fence is signaled.
FenceWaitReturns_NoBlock(s) == TRUE

FenceWaitReturns(s) == is_rendering[s]

\* reset_fences(&[fence]): the fence becomes unsignaled.
ResetFence_Noop(s) == is_rendering

ResetFence(s) == [is_rendering EXCEPT ![s] = FALSE]

\* end_frame: `self.current_frame = (self.current_frame + 1) % FRAMES_IN_FLIGHT`.
NextFrame_Stuck(cf) == cf

NextFrame(cf) == (cf + 1) % FRAMES_IN_FLIGHT

\* end_frame: present_info.p_wait_semaphores = &render_finished.
PresentWaitSemaphore_ImageAvailable == image_available(current_frame)

PresentWaitSemaphore == render_finished(current_frame)

\* end_frame: `submit_info` and the fence of queue_submit, all taken at the
\* index `self.current_frame`, for the present() call number n.
submit_info_FenceOfNextSlot(cf, n) ==
    [frame  |-> n,
     cmd    |-> cf,
     wait   |-> image_available(cf),
     signal |-> render_finished(cf),
     fence  |-> NextFrame(cf),
     st     |-> "queued"]

submit_info(cf, n) ==
    [frame  |-> n,
     cmd    |-> cf,
     wait   |-> image_available(cf),
     signal |-> render_finished(cf),
     fence  |-> cf,
     st     |-> "queued"]

\* The submissions in flight that execute slot s's command buffer.
InFlight(s) == \E i \in 1 .. Len(graphics_queue) : graphics_queue[i].cmd = s

\* The submissions in flight whose command buffer binds descriptor set s, which
\* fill_desc_sets points at uniform buffer s.
ReadsUniformBuffer(s) ==
    \E i \in 1 .. Len(graphics_queue) :
        command_buffers[graphics_queue[i].cmd].desc_set = s

\* device_wait_idle returns: no queue of the device has outstanding work.
DeviceIdle == graphics_queue = <<>> /\ present_queue = <<>>

-----------------------------------------------------------------------------
(* Renderer::new and teardown: the objects and the calls *)

RECURSIVE Flatten(_)
Flatten(seqs) == IF seqs = <<>> THEN <<>> ELSE Head(seqs) \o Flatten(Tail(seqs))

PerSlot(kind) == [i \in 1 .. FRAMES_IN_FLIGHT |-> <<kind, i - 1>>]

PerImage(kind) == [i \in 1 .. NumImages |-> <<kind, i - 1>>]

\* Mesh::into_mesh_data: the objects of mesh number m, in creation order.
MeshObjects(m) ==
    << <<"vertex_buffer", m>>, <<"vertex_buffer_memory", m>>,
       <<"index_buffer", m>>, <<"index_buffer_memory", m>>,
       <<"pipeline_layout", m>>, <<"pipeline", m>> >>

\* Renderer::new: every object that lives until teardown, in creation order.
CreationOrder ==
    << <<"instance", 0>>, <<"surface", 0>>, <<"device", 0>>, <<"swapchain", 0>> >>
    \o PerImage("image_view")
    \o << <<"command_pool", 0>> >>
    \o PerSlot("command_buffer")
    \o << <<"render_pass", 0>> >>
    \o PerImage("framebuffer")
    \o Flatten([i \in 1 .. FRAMES_IN_FLIGHT |->
                  << <<"image_available", i - 1>>, <<"render_finished", i - 1>>,
                     <<"is_rendering", i - 1>> >>])
    \o << <<"desc_set_layout", 0>>, <<"desc_pool", 0>> >>
    \o PerSlot("desc_set")
    \o Flatten([i \in 1 .. FRAMES_IN_FLIGHT |->
                  << <<"uniform_buffer", i - 1>>, <<"uniform_buffer_memory", i - 1>> >>])
    \o Flatten([m \in 1 .. Len(Meshes) |-> MeshObjects(m - 1)])

\* The objects whose handles the creation of obj was given.
CreatedFrom(obj) ==
    LET kind == obj[1]
        i == obj[2]
        dev == {<<"device", 0>>}
    IN  CASE kind = "instance"        -> {}
          [] kind = "surface"         -> {<<"instance", 0>>}
          [] kind = "device"          -> {<<"instance", 0>>}
          [] kind = "swapchain"       -> dev \cup {<<"surface", 0>>}
          [] kind = "image_view"      -> dev \cup {<<"swapchain", 0>>}
          [] kind = "command_buffer"  -> dev \cup {<<"command_pool", 0>>}
          [] kind = "framebuffer"     -> dev \cup {<<"image_view", i>>, <<"render_pass", 0>>}
          [] kind = "desc_set"        -> dev \cup {<<"desc_set_layout", 0>>, <<"desc_pool", 0>>}
          [] kind = "pipeline_layout" -> IF Meshes[i + 1] = "grid"
                                         THEN dev \cup {<<"desc_set_layout", 0>>}
                                         ELSE dev
          [] kind = "pipeline"        -> dev \cup {<<"render_pass", 0>>, <<"pipeline_layout", i>>}
          [] OTHER                    -> dev

\* The pool an object was allocated from: destroy_descriptor_pool and
\* destroy_command_pool free what is still allocated from the pool. The
\* descriptor sets have no free call of their own in the teardown.
PoolOf(obj) ==
    CASE obj[1] = "desc_set"       -> {<<"desc_pool", 0>>}
      [] obj[1] = "command_buffer" -> {<<"command_pool", 0>>}
      [] OTHER                     -> {}

Destroy(objs) == [i \in 1 .. Len(objs) |-> <<"destroy", objs[i][1], objs[i][2]>>]

WaitIdle == << <<"device_wait_idle", "device", 0>> >>

\* Renderer::cleanup_swapchain.
CleanupSwapchainCalls_ViewsFirst ==
    WaitIdle
    \o Destroy(PerImage("image_view"))
    \o Destroy(PerImage("framebuffer"))
    \o Destroy(<< <<"render_pass", 0>> >>)
    \o Destroy(PerSlot("command_buffer"))
    \o Destroy(<< <<"swapchain", 0>> >>)

CleanupSwapchainCalls ==
    WaitIdle
    \o Destroy(PerImage("framebuffer"))
    \o Destroy(<< <<"render_pass", 0>> >>)
    \o Destroy(PerSlot("command_buffer"))
    \o Destroy(PerImage("image_view"))
    \o Destroy(<< <<"swapchain", 0>> >>)

\* impl Drop for MeshData, for mesh number m.
MeshDataDropCalls_KeepsLayout(m) ==
    Destroy(<< <<"index_buffer", m>>, <<"index_buffer_memory", m>>,
               <<"vertex_buffer", m>>, <<"vertex_buffer_memory", m>>,
               <<"pipeline", m>> >>)

MeshDataDropCalls(m) ==
    Destroy(<< <<"index_buffer", m>>, <<"index_buffer_memory", m>>,
               <<"vertex_buffer", m>>, <<"vertex_buffer_memory", m>>,
               <<"pipeline", m>>, <<"pipeline_layout", m>> >>)

\* impl Drop for Renderer: the semaphores and fences of the frame slots.
DropSyncCalls ==
    Destroy(PerSlot("image_available"))
    \o Destroy(PerSlot("render_finished"))
    \o Destroy(PerSlot("is_rendering"))

\* impl Drop for Renderer: the uniform buffers, then `self.meshes.drain(..)`.
DropBufferCalls ==
    Destroy(PerSlot("uniform_buffer"))
    \o Destroy(PerSlot("uniform_buffer_memory"))
    \o Flatten([m \in 1 .. Len(Meshes) |-> MeshDataDropCalls(m - 1)])

\* impl Drop for Renderer: the descriptor and command pools.
DropPoolCalls ==
    Destroy(<< <<"desc_pool", 0>>, <<"desc_set_layout", 0>>, <<"command_pool", 0>> >>)

\* impl Drop for Renderer: the device, the surface and the instance.
DropDeviceCalls ==
    Destroy(<< <<"device", 0>>, <<"surface", 0>>, <<"instance", 0>> >>)

\* impl Drop for Renderer.
DropCalls_NoWaitIdle ==
    DropSyncCalls \o CleanupSwapchainCalls \o DropBufferCalls
    \o DropPoolCalls \o DropDeviceCalls

DropCalls_SwapchainLast ==
    WaitIdle \o DropSyncCalls \o DropBufferCalls \o DropPoolCalls
    \o CleanupSwapchainCalls \o DropDeviceCalls

DropCalls ==
    WaitIdle \o DropSyncCalls \o CleanupSwapchainCalls \o DropBufferCalls
    \o DropPoolCalls \o DropDeviceCalls

-----------------------------------------------------------------------------
(* Renderer::new: pick_phys_device and create_logical_device *)

\* The platforms the `#[cfg(any(target_os = "macos", target_os = "ios"))]`
\* lines tell apart.
TargetOs == {"linux", "macos"}

\* renderer.rs:22-26
REQ_DEVICE_EXTENSIONS(os) ==
    IF os \in {"macos", "ios"}
    THEN <<"VK_KHR_swapchain", "VK_KHR_portability_subset">>
    ELSE <<"VK_KHR_swapchain">>

\* vk::PhysicalDeviceType; "OTHER" is the `_` arm of device_type_to_priority.
PhysicalDeviceTypes == {"DISCRETE_GPU", "INTEGRATED_GPU", "VIRTUAL_GPU", "CPU", "OTHER"}

\* Option::None of the fields of QueueFamilyIndices; Some(i) is i.
None == -1

\* QueueFamilyIndices::default()
QueueFamilyIndicesDefault ==
    [graphics |-> None, compute |-> None, transfer |-> None, present |-> None]

\* get_queue_family_indices: the body of the loop for family number i - 1.
ScanQueueFamily(families, i, f) ==
    LET opt == i - 1
    IN  [graphics |-> IF "GRAPHICS" \in f.queue_flags THEN opt ELSE families.graphics,
         compute  |-> IF "COMPUTE" \in f.queue_flags THEN opt ELSE families.compute,
         transfer |-> IF "TRANSFER" \in f.queue_flags THEN opt ELSE families.transfer,
         present  |-> IF f.present_support THEN opt ELSE families.present]

RECURSIVE ScanQueueFamilies(_, _, _)
ScanQueueFamilies(queue_families, i, families) ==
    IF i > Len(queue_families)
    THEN families
    ELSE ScanQueueFamilies(queue_families, i + 1,
                           ScanQueueFamily(families, i, queue_families[i]))

\* get_queue_family_indices
get_queue_family_indices(queue_families) ==
    ScanQueueFamilies(queue_families, 1, QueueFamilyIndicesDefault)

\* gather_phys_device_infos: `supports_required_queues`.
supports_required_queues_GraphicsOnly(queue_family_indices) ==
    queue_family_indices.graphics # None

supports_required_queues(queue_family_indices) ==
    queue_family_indices.graphics # None /\ queue_family_indices.present # None

\* supports_required_extensions
supports_required_extensions_Any(exts, os) ==
    LET req_exts == REQ_DEVICE_EXTENSIONS(os)
        support_found == [i \in 1 .. Len(req_exts) |->
                             \E j \in 1 .. Len(exts) : exts[j] = req_exts[i]]
    IN  \E i \in 1 .. Len(req_exts) : support_found[i]

supports_required_extensions(exts, os) ==
    LET req_exts == REQ_DEVICE_EXTENSIONS(os)
        support_found == [i \in 1 .. Len(req_exts) |->
                             \E j \in 1 .. Len(exts) : exts[j] = req_exts[i]]
    IN  \A i \in 1 .. Len(req_exts) : support_found[i]

\* gather_phys_device_infos: the PhysDeviceInfo of one device.
PhysDeviceInfo(d) ==
    [phys_device          |-> d.phys_device,
     properties           |-> [device_type |-> d.device_type],
     queue_family_indices |-> get_queue_family_indices(d.queue_families)]

\* gather_phys_device_infos
gather_phys_device_infos(devices, os) ==
    LET Suitable(d) ==
            /\ supports_required_queues(get_queue_family_indices(d.queue_families))
            /\ supports_required_extensions(d.extensions, os)
        suitable == SelectSeq(devices, Suitable)
    IN  [i \in 1 .. Len(suitable) |-> PhysDeviceInfo(suitable[i])]

\* device_type_to_priority
device_type_to_priority_IntegratedFirst(type_) ==
    CASE type_ = "DISCRETE_GPU"   -> 2
      [] type_ = "INTEGRATED_GPU" -> 1
      [] type_ = "VIRTUAL_GPU"    -> 3
      [] type_ = "CPU"            -> 4
      [] OTHER                    -> 5

device_type_to_priority(type_) ==
    CASE type_ = "DISCRETE_GPU"   -> 1
      [] type_ = "INTEGRATED_GPU" -> 2
      [] type_ = "VIRTUAL_GPU"    -> 3
      [] type_ = "CPU"            -> 4
      [] OTHER                    -> 5

\* slice::sort_by_key, a stable sort: elements of equal key keep their order.
\* `key` maps each element of seq to the key the closure gives it.
sort_by_key(seq, key) ==
    LET n == Len(seq)
        Before(j, i) == \/ key[seq[j]] < key[seq[i]]
                        \/ key[seq[j]] = key[seq[i]] /\ j < i
        Place(i) == Cardinality({j \in 1 .. n : Before(j, i)}) + 1
    IN  [r \in 1 .. n |-> seq[CHOOSE i \in 1 .. n : Place(i) = r]]

\* slice::sort_unstable_by_key, in a run where equal keys end up reversed.
sort_unstable_by_key(seq, key) ==
    LET n == Len(seq)
        Before(j, i) == \/ key[seq[j]] < key[seq[i]]
                        \/ key[seq[j]] = key[seq[i]] /\ j > i
        Place(i) == Cardinality({j \in 1 .. n : Before(j, i)}) + 1
    IN  [r \in 1 .. n |-> seq[CHOOSE i \in 1 .. n : Place(i) = r]]

\* pick_phys_device: `|d| device_type_to_priority(d.properties.device_type)`
DeviceKey(infos) ==
    [d \in {infos[i] : i \in DOMAIN infos} |->
        device_type_to_priority(d.properties.device_type)]

\* pick_phys_device: `sort_by_key(..)`, then `phys_device_infos[0].clone()`.
SortedPhysDeviceInfos_Unstable(infos) == sort_unstable_by_key(infos, DeviceKey(infos))

SortedPhysDeviceInfos(infos) == sort_by_key(infos, DeviceKey(infos))

\* Vec::dedup: of consecutive equal elements, the first is kept.
dedup_KeepAll(v) == v

dedup(v) ==
    LET kept == {i \in DOMAIN v : i = 1 \/ v[i] # v[i - 1]}
    IN  [k \in 1 .. Cardinality(kept) |->
            v[CHOOSE i \in kept : Cardinality({j \in kept : j <= i}) = k]]

\* create_logical_device: `unique_families`, after `sort_unstable()` and
\* `dedup()`. The order of equal integers cannot be told apart, so the sort
\* is that of sort_by_key on the families themselves.
UniqueFamilies(info) ==
    LET gfx == info.queue_family_indices.graphics
        present == info.queue_family_indices.present
    IN  dedup(sort_by_key(<<gfx, present>>, [f \in {gfx, present} |-> f]))

\* create_logical_device: one DeviceQueueCreateInfo per unique family, each of
\* one queue, and the required device extensions.
create_logical_device(info, os) ==
    [phys_device        |-> info.phys_device,
     queue_create_infos |-> [i \in 1 .. Len(UniqueFamilies(info)) |->
                                [queue_family_index |-> UniqueFamilies(info)[i],
                                 queue_priorities   |-> <<"1.0">>,
                                 queue_count        |-> Len(<<"1.0">>)]],
     enabled_extensions |-> REQ_DEVICE_EXTENSIONS(os)]

\* No PhysDeviceInfo yet, no logical device yet.
NoPhysDeviceInfo == [phys_device |-> None]

NoDevice == [phys_device |-> None]

\* `gather_phys_device_infos(instance, surface, surface_loader, &phys_devices)`
GatherPhysDeviceInfos ==
    /\ pc = "gather_phys_device_infos"
    /\ phys_device_infos' = gather_phys_device_infos(phys_devices, target_os)
    /\ pc' = "pick_phys_device"
    /\ UNCHANGED <<other_than_device, target_os, phys_devices, phys_device_info, device>>

\* pick_phys_device: the assert, the sort and `phys_device_infos[0].clone()`.
PickPhysDevice ==
    /\ pc = "pick_phys_device"
    /\ \/ /\ phys_device_infos = <<>>
          /\ pc' = "panicked"
          /\ UNCHANGED <<phys_device_infos, phys_device_info>>
       \/ /\ phys_device_infos # <<>>
          /\ phys_device_infos' = SortedPhysDeviceInfos(phys_device_infos)
          /\ phys_device_info' = SortedPhysDeviceInfos(phys_device_infos)[1]
          /\ pc' = "create_logical_device"
    /\ UNCHANGED <<other_than_device, target_os, phys_devices, device>>

\* `let device = create_logical_device(&instance, &phys_device_info);`
CreateLogicalDevice ==
    /\ pc = "create_logical_device"
    /\ device' = create_logical_device(phys_device_info, target_os)
    /\ pc' = "device_created"
    /\ UNCHANGED <<other_than_device, target_os, phys_devices, phys_device_infos,
                   phys_device_info>>

-----------------------------------------------------------------------------
(* Renderer::new: the swapchain, its image views and its framebuffers *)

\* The pair choose_swapchain_format looks for.
PreferredFormat == [format |-> "B8G8R8A8_UNORM", color_space |-> "SRGB_NONLINEAR"]

IsPreferredFormat_FormatOnly(format) == format.format = "B8G8R8A8_UNORM"

IsPreferredFormat(format) ==
    format.format = "B8G8R8A8_UNORM" /\ format.color_space = "SRGB_NONLINEAR"

\* choose_swapchain_format: `for format in &formats`, from element i on, then
\* `formats[0]`.
RECURSIVE ScanFormats(_, _)
ScanFormats(fmts, i) ==
    IF i > Len(fmts) THEN fmts[1]
    ELSE IF IsPreferredFormat(fmts[i]) THEN fmts[i]
    ELSE ScanFormats(fmts, i + 1)

choose_swapchain_format(fmts) == ScanFormats(fmts, 1)

\* present_mode_to_priority
present_mode_to_priority_MailboxFirst(mode) ==
    CASE mode = "MAILBOX"      -> 1
      [] mode = "IMMEDIATE"    -> 2
      [] mode = "FIFO_RELAXED" -> 3
      [] OTHER                 -> 4

present_mode_to_priority(mode) ==
    CASE mode = "IMMEDIATE"    -> 1
      [] mode = "FIFO_RELAXED" -> 2
      [] mode = "MAILBOX"      -> 3
      [] OTHER                 -> 4

\* choose_swapchain_present_mode: `modes.sort_by_key(..)`, then `modes[0]`.
choose_swapchain_present_mode(available) ==
    sort_by_key(available,
                [m \in {available[i] : i \in DOMAIN available} |->
                    present_mode_to_priority(m)])[1]

\* get_swapchain_images: the handles of the images of the swapchain.
get_swapchain_images == [i \in 1 .. NumImages |-> <<"image", i - 1>>]

\* create_image_views: one view per image, in the order of the images.
create_image_views(images) ==
    [i \in 1 .. Len(images) |-> [handle |-> <<"image_view", i - 1>>, image |-> images[i]]]

\* create_framebuffers: one framebuffer per view, in the order of the views,
\* with the view as its only attachment.
create_framebuffers_SkipFirst(image_views) ==
    [i \in 1 .. (Len(image_views) - 1) |->
        [handle |-> <<"framebuffer", i - 1>>, attachment |-> image_views[i + 1].handle]]

create_framebuffers(image_views) ==
    [i \in 1 .. Len(image_views) |->
        [handle |-> <<"framebuffer", i - 1>>, attachment |-> image_views[i].handle]]

\* u32::MAX, the width by which a surface says that it has no extent of its own.
\* TLC's integers end at 2^31 - 1, so the greatest u32 is modelled as the
\* greatest integer TLC has: no arithmetic is done on it, it is only compared.
u32_MAX == 2147483647

\* u32::clamp asserts `min <= max`.
clamp_asserts(min, max) == min <= max

\* u32::clamp(self, min, max), once its assertion has held.
clamp_NoUpperBound(self, min, max) ==
    IF self < min THEN min ELSE self

clamp(self, min, max) ==
    IF self < min THEN min
    ELSE IF self > max THEN max
    ELSE self

\* choose_swapchain_extent panics in the first clamp whose assertion fails.
choose_swapchain_extent_panics(win, capabilities) ==
    /\ capabilities.current_extent.width = u32_MAX
    /\ \/ ~clamp_asserts(capabilities.min_image_extent.width,
                         capabilities.max_image_extent.width)
       \/ ~clamp_asserts(capabilities.min_image_extent.height,
                         capabilities.max_image_extent.height)

\* choose_swapchain_extent: the surface's extent when its width is not
\* u32::MAX, else the size of the window clamped to the surface's limits.
choose_swapchain_extent_OfWindow(win, capabilities) ==
    [width  |-> clamp(win.width, capabilities.min_image_extent.width,
                      capabilities.max_image_extent.width),
     height |-> clamp(win.height, capabilities.min_image_extent.height,
                      capabilities.max_image_extent.height)]

choose_swapchain_extent(win, capabilities) ==
    IF capabilities.current_extent.width # u32_MAX
    THEN capabilities.current_extent
    ELSE [width  |-> clamp(win.width, capabilities.min_image_extent.width,
                           capabilities.max_image_extent.width),
          height |-> clamp(win.height, capabilities.min_image_extent.height,
                           capabilities.max_image_extent.height)]

\* create_swapchain: `image_count`, one more than the least the surface
\* takes, capped by the most it takes when it has a most.
image_count_Uncapped(capabilities) == capabilities.min_image_count + 1

image_count(capabilities) ==
    IF /\ capabilities.min_image_count + 1 > capabilities.max_image_count
       /\ capabilities.max_image_count # 0
    THEN capabilities.max_image_count
    ELSE capabilities.min_image_count + 1

\* create_swapchain: `(image_sharing_mode, queue_family_index_count,
\* queue_family_indices)`.
image_sharing_AlwaysExclusive(gfx_queue_idx, present_queue_idx) ==
    [image_sharing_mode       |-> "EXCLUSIVE",
     queue_family_index_count |-> 0,
     queue_family_indices     |-> <<>>]

image_sharing(gfx_queue_idx, present_queue_idx) ==
    IF gfx_queue_idx = present_queue_idx
    THEN [image_sharing_mode       |-> "EXCLUSIVE",
          queue_family_index_count |-> 0,
          queue_family_indices     |-> <<>>]
    ELSE [image_sharing_mode       |-> "CONCURRENT",
          queue_family_index_count |-> 2,
          queue_family_indices     |-> <<gfx_queue_idx, present_queue_idx>>]

\* create_swapchain: `create_info`.
SwapchainCreateInfoKHR(capabilities, format, extent, mode, queue_family_indices) ==
    LET sharing == image_sharing(queue_family_indices.graphics,
                                 queue_family_indices.present)
    IN  [min_image_count          |-> image_count(capabilities),
         image_color_space        |-> format.color_space,
         image_format             |-> format.format,
         image_extent             |-> extent,
         image_sharing_mode       |-> sharing.image_sharing_mode,
         queue_family_indices     |-> sharing.queue_family_indices,
         queue_family_index_count |-> sharing.queue_family_index_count,
         present_mode             |-> mode]

\* No format, no present mode, no extent chosen yet, and no create_info.
NoFormat == [format |-> "UNDEFINED", color_space |-> "UNDEFINED"]

NoPresentMode == "UNDEFINED"

NoExtent == [width |-> 0, height |-> 0]

NoCreateInfo ==
    [min_image_count          |-> 0,
     image_color_space        |-> "UNDEFINED",
     image_format             |-> "UNDEFINED",
     image_extent             |-> NoExtent,
     image_sharing_mode       |-> "UNDEFINED",
     queue_family_indices     |-> <<>>,
     queue_family_index_count |-> 0,
     present_mode             |-> NoPresentMode]

\* `let swapchain_format = choose_swapchain_format(..)`
ChooseSwapchainFormat ==
    /\ pc = "choose_swapchain_format"
    /\ swapchain_format' = choose_swapchain_format(formats)
    /\ pc' = "choose_swapchain_extent"
    /\ UNCHANGED <<other_than_swapchain, swapchain_inputs, present_mode,
                   swapchain_image_views, framebuffers, swapchain_extent,
                   create_info>>

\* `let swapchain_extent = choose_swapchain_extent(window, &surface_capabilities)`
ChooseSwapchainExtent ==
    /\ pc = "choose_swapchain_extent"
    /\ IF choose_swapchain_extent_panics(window, surface_capabilities)
       THEN /\ pc' = "panicked"
            /\ UNCHANGED swapchain_extent
       ELSE /\ swapchain_extent' = choose_swapchain_extent(window, surface_capabilities)
            /\ pc' = "create_swapchain"
    /\ UNCHANGED <<other_than_swapchain, swapchain_inputs, swapchain_format,
                   present_mode, swapchain_image_views, framebuffers, create_info>>

\* create_swapchain: the image count, `let present_mode =
\* choose_swapchain_present_mode(..)`, the sharing mode and `create_info`.
CreateSwapchain ==
    /\ pc = "create_swapchain"
    /\ present_mode' = choose_swapchain_present_mode(modes)
    /\ create_info' = SwapchainCreateInfoKHR(surface_capabilities, swapchain_format,
                                             swapchain_extent, present_mode',
                                             phys_device_info.queue_family_indices)
    /\ pc' = "create_image_views"
    /\ UNCHANGED <<other_than_swapchain, swapchain_inputs, swapchain_format,
                   swapchain_image_views, framebuffers, swapchain_extent>>

\* `let swapchain_images = get_swapchain_images(..)` and
\* `let swapchain_image_views = create_image_views(.., &swapchain_images)`
CreateImageViews ==
    /\ pc = "create_image_views"
    /\ swapchain_image_views' = create_image_views(get_swapchain_images)
    /\ pc' = "create_framebuffers"
    /\ UNCHANGED <<other_than_swapchain, swapchain_inputs, swapchain_format,
                   present_mode, framebuffers, swapchain_extent, create_info>>

\* `let framebuffers = create_framebuffers(.., &swapchain_image_views, ..)`
CreateFramebuffers ==
    /\ pc = "create_framebuffers"
    /\ framebuffers' = create_framebuffers(swapchain_image_views)
    /\ pc' = "swapchain_created"
    /\ UNCHANGED <<other_than_swapchain, swapchain_inputs, swapchain_format,
                   present_mode, swapchain_image_views, swapchain_extent,
                   create_info>>

-----------------------------------------------------------------------------
(* create_buffer_of_type: the staged upload *)

\* A byte of memory that nothing has written.
Undefined == "undefined"

\* `(data.len() * size_of::<T>())`
size_bytes_OfLen(d, size) == Len(d)

size_bytes(d, size) == Len(d) * size

\* The bytes of a slice: those of its values, in order.
BytesOf(d) == Flatten(d)

\* create_buffer: memory of `size` bytes bound to the buffer at offset 0.
AllocatedMemory(size) == [state |-> "allocated", bytes |-> [i \in 1 .. size |-> Undefined]]

\* `out_ptr.copy_from_nonoverlapping(data.as_ptr(), data.len())` into the
\* mapping of the whole memory: the bytes of the slice, from offset 0 on.
CopyFromNonoverlapping(bytes, d) ==
    [i \in DOMAIN bytes |-> IF i <= Len(BytesOf(d)) THEN BytesOf(d)[i] ELSE bytes[i]]

\* copy_buffers: `vk::BufferCopy { size, ..Default::default() }`
CopyRegion(size) == [src_offset |-> 0, dst_offset |-> 0, size |-> size]

\* cmd_copy_buffer as the device executes it: the bytes of the region go from
\* the source memory to the destination memory; what is read from freed
\* memory is undefined.
CmdCopyBuffer(src, dst, region) ==
    [i \in DOMAIN dst.bytes |->
        IF i > region.dst_offset /\ i <= region.dst_offset + region.size
        THEN LET j == i - region.dst_offset + region.src_offset
             IN  IF src.state = "allocated" /\ j \in DOMAIN src.bytes
                 THEN src.bytes[j] ELSE Undefined
        ELSE dst.bytes[i]]

\* queue_wait_idle returns: the queue has no submission outstanding.
QueueIdle_NoBlock == TRUE

QueueIdle == queue = <<>>

NoBuffer == [state |-> "null", size |-> 0, usage |-> {}]

NoMemory == [state |-> "null", bytes |-> <<>>]

NoCommandBuffer == [state |-> "null", commands |-> <<>>]

\* create_buffer_of_type: `create_buffer(.., TRANSFER_SRC, HOST_VISIBLE)`
CreateStagingBuffer ==
    /\ pc = "create_buffer_of_type"
    /\ staging_buffer' = "alive"
    /\ staging_memory' = AllocatedMemory(size_bytes(data, size_of_T))
    /\ pc' = "upload_to_buffer_memory"
    /\ UNCHANGED <<other_than_upload, data, size_of_T, buffer, memory, cmd_buffer,
                   queue, copied>>

\* upload_to_buffer_memory: map, copy, flush, unmap.
UploadToBufferMemory ==
    /\ pc = "upload_to_buffer_memory"
    /\ staging_memory' =
          [staging_memory EXCEPT !.bytes = CopyFromNonoverlapping(@, data)]
    /\ pc' = "create_buffer"
    /\ UNCHANGED <<other_than_upload, data, size_of_T, staging_buffer, buffer, memory,
                   cmd_buffer, queue, copied>>

\* create_buffer_of_type: `create_buffer(.., usage | TRANSFER_DST, DEVICE_LOCAL)`
CreateDestinationBuffer ==
    /\ pc = "create_buffer"
    /\ \E usage \in {"VERTEX_BUFFER", "INDEX_BUFFER"} :
          buffer' = [state |-> "alive",
                     size  |-> size_bytes(data, size_of_T),
                     usage |-> {usage, "TRANSFER_DST"}]
    /\ memory' = AllocatedMemory(size_bytes(data, size_of_T))
    /\ pc' = "copy_buffers"
    /\ UNCHANGED <<other_than_upload, data, size_of_T, staging_buffer,
                   staging_memory, cmd_buffer, queue, copied>>

\* copy_buffers: the command buffer is allocated and the copy recorded in it.
RecordCopyBuffers ==
    /\ pc = "copy_buffers"
    /\ cmd_buffer' = [state    |-> "executable",
                      commands |-> << CopyRegion(size_bytes(data, size_of_T)) >>]
    /\ pc' = "queue_submit_copy"
    /\ UNCHANGED <<other_than_upload, data, size_of_T, staging_buffer,
                   staging_memory, buffer, memory, queue, copied>>

\* copy_buffers: `queue_submit(queue, &[submit_info], vk::Fence::null())`
SubmitCopy ==
    /\ pc = "queue_submit_copy"
    /\ queue' = Append(queue, cmd_buffer.commands)
    /\ cmd_buffer' = [cmd_buffer EXCEPT !.state = "pending"]
    /\ pc' = "queue_wait_idle"
    /\ UNCHANGED <<other_than_upload, data, size_of_T, staging_buffer,
                   staging_memory, buffer, memory, copied>>

\* copy_buffers: `queue_wait_idle(queue)`
QueueWaitIdle ==
    /\ pc = "queue_wait_idle"
    /\ QueueIdle
    /\ pc' = "free_command_buffers"
    /\ UNCHANGED <<other_than_upload, upload_vars>>

\* copy_buffers: `free_command_buffers(command_pool, &[cmd_buffer])`
FreeCopyCommandBuffer ==
    /\ pc = "free_command_buffers"
    /\ cmd_buffer' = [cmd_buffer EXCEPT !.state = "freed"]
    /\ pc' = "destroy_staging_buffer"
    /\ UNCHANGED <<other_than_upload, data, size_of_T, staging_buffer,
                   staging_memory, buffer, memory, queue, copied>>

\* create_buffer_of_type: `destroy_buffer(staging_buffer, None)`
DestroyStagingBuffer ==
    /\ pc = "destroy_staging_buffer"
    /\ staging_buffer' = "destroyed"
    /\ pc' = "free_staging_memory"
    /\ UNCHANGED <<other_than_upload, data, size_of_T, staging_memory, buffer,
                   memory, cmd_buffer, queue, copied>>

\* create_buffer_of_type: `free_memory(staging_memory, None)`, then the return
\* of `(buffer, memory)`.
FreeStagingMemory ==
    /\ pc = "free_staging_memory"
    /\ staging_memory' = [state |-> "freed", bytes |-> <<>>]
    /\ pc' = "uploaded"
    /\ UNCHANGED <<other_than_upload, data, size_of_T, staging_buffer, buffer,
                   memory, cmd_buffer, queue, copied>>

\* The device executes the oldest submission of the queue: the copy from the
\* staging buffer to the destination buffer.
GpuCopy ==
    /\ queue # <<>>
    /\ memory' = [memory EXCEPT
                     !.bytes = CmdCopyBuffer(staging_memory, memory, Head(queue)[1])]
    /\ queue' = Tail(queue)
    /\ copied' = TRUE
    /\ cmd_buffer' = IF cmd_buffer.state = "pending"
                     THEN [cmd_buffer EXCEPT !.state = "invalid"]
                     ELSE cmd_buffer
    /\ UNCHANGED <<pc, other_than_upload, data, size_of_T, staging_buffer,
                   staging_memory, buffer>>

-----------------------------------------------------------------------------
(* create_buffer: the memory type of a buffer *)

\* `req_type & (1 << i) == 0`, on numbers that fit in 32 bits.
type_bit_is_clear(type_bits, i) == (type_bits \div (2 ^ i)) % 2 = 0

\* `memory_type.property_flags.contains(req_properties)`
contains_Intersects(property_flags, flags) ==
    flags \cap property_flags # {}

contains(property_flags, flags) == flags \subseteq property_flags

\* find_memory_type: the loop over `memory_types.iter().enumerate()`, from
\* index i on, then `None`.
RECURSIVE ScanMemoryTypes(_, _, _, _)
ScanMemoryTypes(type_bits, flags, memory_types, i) ==
    IF i >= Len(memory_types) THEN None
    ELSE IF type_bit_is_clear(type_bits, i)
         THEN ScanMemoryTypes(type_bits, flags, memory_types, i + 1)
    ELSE IF ~contains(memory_types[i + 1], flags)
         THEN ScanMemoryTypes(type_bits, flags, memory_types, i + 1)
    ELSE i

find_memory_type(type_bits, flags, memory_types) ==
    ScanMemoryTypes(type_bits, flags, memory_types, 0)

\* create_buffer: `let memory_type_index = find_memory_type(..).check_err(..)`
FindMemoryType ==
    /\ pc = "find_memory_type"
    /\ memory_type_index' = find_memory_type(req_type, req_properties, mem_properties)
    /\ pc' = IF memory_type_index' = None THEN "panicked" ELSE "allocate_memory"
    /\ UNCHANGED <<other_than_memory_type, mem_properties, req_type, req_properties>>

-----------------------------------------------------------------------------
(* Mesh::into_mesh_data: the buffers, the pipeline layout and the pipeline *)

\* create_buffer_of_type: the device objects it creates for the buffer `name`,
\* in order: the staging buffer and its memory, the buffer and its memory, and
\* copy_buffers' command buffer.
BufferOfTypeObjects(name) ==
    << <<"buffer", "staging">>, <<"memory", "staging">>,
       <<"buffer", name>>, <<"memory", name>>,
       <<"command_buffer", "copy">> >>

\* pack_to_u32s: `assert!(bytes.len() % 4 == 0, ..)`
pack_to_u32s_asserts_Always(bytes) == TRUE

pack_to_u32s_asserts(bytes) == Len(bytes) % 4 = 0

\* u32::from_ne_bytes: the word whose bytes in memory, in the byte order of
\* the target, are b0, b1, b2, b3.
from_ne_bytes(b0, b1, b2, b3, endian) ==
    IF endian = "little"
    THEN b0 + 256 * b1 + 65536 * b2 + 16777216 * b3
    ELSE b3 + 256 * b2 + 65536 * b1 + 16777216 * b0

\* pack_to_u32s, once its assertion has held: one word per chunk of
\* `chunks_exact(4)`, which leaves out what remains after the last whole chunk.
pack_to_u32s(bytes, endian) ==
    [i \in 1 .. (Len(bytes) \div 4) |->
        from_ne_bytes(bytes[4 * i - 3], bytes[4 * i - 2], bytes[4 * i - 1],
                      bytes[4 * i], endian)]

\* create_shader_module: the vk::ShaderModuleCreateInfo the device is given.
ShaderModuleCreateInfo(code, endian) ==
    [code_size |-> Len(code), p_code |-> pack_to_u32s(code, endian)]

\* create_shader_module: the module of the shader `stage`.
ShaderModule(stage, code, endian) ==
    [stage       |-> stage,
     create_info |-> ShaderModuleCreateInfo(code, endian),
     state       |-> "alive"]

\* `let (vertex_buffer, vertex_buffer_memory) = create_buffer_of_type(..)`
CreateVertexBuffer ==
    /\ pc = "into_mesh_data"
    /\ mesh_created' = mesh_created \o BufferOfTypeObjects("vertex")
    /\ pc' = "create_index_buffer"
    /\ UNCHANGED <<other_than_mesh, vert_shader_compiled, frag_shader_compiled,
                   target_endian, shader_modules>>

\* `let (index_buffer, index_buffer_memory) = create_buffer_of_type(..)`
CreateIndexBuffer ==
    /\ pc = "create_index_buffer"
    /\ mesh_created' = mesh_created \o BufferOfTypeObjects("index")
    /\ pc' = "create_pipeline_layout"
    /\ UNCHANGED <<other_than_mesh, vert_shader_compiled, frag_shader_compiled,
                   target_endian, shader_modules>>

\* `let pipeline_layout = create_pipeline_layout(..)`
CreatePipelineLayout ==
    /\ pc = "create_pipeline_layout"
    /\ mesh_created' = Append(mesh_created, <<"pipeline_layout", "mesh">>)
    /\ pc' = "create_vert_shader_module"
    /\ UNCHANGED <<other_than_mesh, vert_shader_compiled, frag_shader_compiled,
                   target_endian, shader_modules>>

\* create_shader_module(device, code) for the shader `stage`: pack_to_u32s
\* panics, or the device creates the module.
CreateShaderModule(stage, code, next) ==
    /\ IF pack_to_u32s_asserts(code)
       THEN /\ shader_modules' =
                  Append(shader_modules, ShaderModule(stage, code, target_endian))
            /\ mesh_created' = Append(mesh_created, <<"shader_module", stage>>)
            /\ pc' = next
       ELSE /\ pc' = "panicked"
            /\ UNCHANGED <<shader_modules, mesh_created>>
    /\ UNCHANGED <<other_than_mesh, vert_shader_compiled, frag_shader_compiled,
                   target_endian>>

\* create_graphics_pipeline:
\* `let vert_shader_mod = create_shader_module(device, vert_shader_compiled)`
CreateVertShaderModule ==
    /\ pc = "create_vert_shader_module"
    /\ CreateShaderModule("vert", vert_shader_compiled, "create_frag_shader_module")

\* create_graphics_pipeline:
\* `let frag_shader_mod = create_shader_module(device, frag_shader_compiled)`
CreateFragShaderModule ==
    /\ pc = "create_frag_shader_module"
    /\ CreateShaderModule("frag", frag_shader_compiled, "create_graphics_pipelines")

\* create_graphics_pipeline: `device.create_graphics_pipelines(..)`, then the
\* two `destroy_shader_module`, and the return of the MeshData.
CreateGraphicsPipelines ==
    /\ pc = "create_graphics_pipelines"
    /\ mesh_created' = Append(mesh_created, <<"pipeline", "mesh">>)
    /\ shader_modules' = [i \in DOMAIN shader_modules |->
                             [shader_modules[i] EXCEPT !.state = "destroyed"]]
    /\ pc' = "mesh_data"
    /\ UNCHANGED <<other_than_mesh, vert_shader_compiled, frag_shader_compiled,
                   target_endian>>

-----------------------------------------------------------------------------
(* create_grid_mesh and create_crosshair_mesh *)

\* The values of `u16`, the type of an index: `indices: Vec<u16>`.
u16_SIZE == 65536

\* No Mesh: Renderer::new moves each Mesh into into_mesh_data.
NoMesh == [vertices |-> <<>>, indices |-> <<>>]

\* create_graphics_pipeline: `stride: size_f32 * 2`, a vertex is two floats.
VertexCount(m) == Len(m.vertices) \div 2

\* create_grid_mesh: the loop, with n iterations left. `idx` is a u16; the
\* additions wrap where a build without overflow checks wraps.
RECURSIVE GridLoop(_, _, _, _, _, _, _, _)
GridLoop(n, res, min, max, x_off, y_off, idx, m) ==
    IF n = 0
    THEN m
    ELSE LET idx2 == (idx + 2) % u16_SIZE
         IN  GridLoop(n - 1, res, min, max, x_off + res, y_off + res,
                      (idx2 + 2) % u16_SIZE,
                      [vertices |-> m.vertices
                                    \o <<min, y_off, max, y_off>>
                                    \o <<x_off, min, x_off, max>>,
                       indices  |-> m.indices
                                    \o <<idx, (idx + 1) % u16_SIZE>>
                                    \o <<idx2, (idx2 + 1) % u16_SIZE>>])

\* create_grid_mesh(res, cells), for a whole `res`.
create_grid_mesh(res, cells) ==
    LET min == -(res * cells)
        max == res * cells
    IN  GridLoop(cells * 2 + 1, res, min, max, -(res * cells), -(res * cells), 0,
                 [vertices |-> <<>>, indices |-> <<>>])

\* create_crosshair_mesh(length, thickness, window), for whole lengths; the
\* floats of the result are counted in halves, so that `width / 2.0` and
\* `+ 0.5` are whole.
create_crosshair_mesh(length, thickness, win) ==
    LET cx == win.width
        cy == win.height
        near == 2 * thickness
        far == near + 2 * length
    IN  [vertices |-> <<cx, cy + near + 1, cx, cy + far + 1>>
                      \o <<cx + near + 1, cy, cx + far + 1, cy>>
                      \o <<cx, cy - near - 1, cx, cy - far - 1>>
                      \o <<cx - near - 1, cy, cx - far - 1, cy>>,
         indices  |-> [i \in 1 .. 16 |-> i - 1]]

\* Renderer::new: `create_grid_mesh(2.0, 32)`
CreateGridMesh ==
    /\ pc = "create_grid_mesh"
    /\ grid' = create_grid_mesh(grid_res, grid_cells)
    /\ pc' = "create_crosshair_mesh"
    /\ UNCHANGED <<other_than_geometry, grid_res, grid_cells, crosshair_length,
                   crosshair_thickness, crosshair>>

\* Renderer::new: `create_crosshair_mesh(6.0, 2.0, window)`
CreateCrosshairMesh ==
    /\ pc = "create_crosshair_mesh"
    /\ crosshair' = create_crosshair_mesh(crosshair_length, crosshair_thickness, window)
    /\ pc' = "meshes"
    /\ UNCHANGED <<other_than_geometry, grid_res, grid_cells, crosshair_length,
                   crosshair_thickness, grid>>

-----------------------------------------------------------------------------
(* InputHandler *)

\* The greatest coordinate of the mouse and the most counts it moves by
\* between two updates of the camera.
MaxMouse == 1

\* window::Key: the keys handle_key_press tells apart, and "Space" for the
\* keys of the `_` arm.
Keys == {"W", "S", "A", "D", "Space"}

NoEvent == [kind |-> "none", key |-> "none"]

\* handle_key_press: `self.forward` after the press of key k.
press_forward(k, f) ==
    CASE k = "W" -> 1
      [] k = "S" -> -1
      [] OTHER   -> f

\* handle_key_press: `self.right` after the press of key k.
press_right(k, r) ==
    CASE k = "D" -> 1
      [] k = "A" -> -1
      [] OTHER   -> r

\* handle_key_release: `self.forward` after the release of key k.
release_forward_Always(k, f) ==
    IF k \in {"W", "S"} THEN 0 ELSE f

release_forward(k, f) ==
    CASE k = "W" -> IF f = 1 THEN 0 ELSE f
      [] k = "S" -> IF f = -1 THEN 0 ELSE f
      [] OTHER   -> f

\* handle_key_release: `self.right` after the release of key k.
release_right(k, r) ==
    CASE k = "D" -> IF r = 1 THEN 0 ELSE r
      [] k = "A" -> IF r = -1 THEN 0 ELSE r
      [] OTHER   -> r

\* InputHandler::handle_mouse
HandleMouse ==
    /\ \E x \in 0 .. MaxMouse :
          \E y \in 0 .. MaxMouse :
              /\ mouse_diff_x' = x - mouse_prev_x
              /\ mouse_diff_y' = y - mouse_prev_y
              /\ mouse_prev_x' = x
              /\ mouse_prev_y' = y
    /\ event' = [kind |-> "mouse", key |-> "none"]
    /\ UNCHANGED <<pc, other_than_input, forward, right>>

\* InputHandler::handle_key_press
HandleKeyPress ==
    /\ \E k \in Keys :
          /\ forward' = press_forward(k, forward)
          /\ right' = press_right(k, right)
          /\ event' = [kind |-> "press", key |-> k]
    /\ UNCHANGED <<pc, other_than_input, mouse_prev_x, mouse_prev_y, mouse_diff_x,
                   mouse_diff_y>>

\* InputHandler::handle_key_release
HandleKeyRelease ==
    /\ \E k \in Keys :
          /\ forward' = release_forward(k, forward)
          /\ right' = release_right(k, right)
          /\ event' = [kind |-> "release", key |-> k]
    /\ UNCHANGED <<pc, other_than_input, mouse_prev_x, mouse_prev_y, mouse_diff_x,
                   mouse_diff_y>>

-----------------------------------------------------------------------------
(* Camera *)

\* The greatest pitch and yaw the camera is followed to.
MaxAngle == 1

\* The greatest coordinate of a position.
MaxCoord == 1

\* Mat4::IDENTITY, as the product of no rotation and no translation.
IDENTITY == [rotation |-> <<0, 0, 0>>, translation |-> <<0, 0, 0>>]

\* `-self.position`
Neg(v) == [i \in 1 .. 3 |-> -v[i]]

\* recalc_view_matrix: IDENTITY * from_euler(XYZ, -pitch, -yaw, -roll)
\* * from_translation(-position); the product is kept as its two factors.
recalc_view_matrix(p, y, r, pos) ==
    [rotation |-> <<-p, -y, -r>>, translation |-> Neg(pos)]

\* pitch_max and -pitch_min, PI / 2.0 - 0.001, in the unit of the angles:
\* the turn of one mouse count, m_pitch * sensitiviy * to_rads.
PitchLimit == 1858

\* f32::clamp
clamp_f32(v, min, max) == IF v < min THEN min ELSE IF v > max THEN max ELSE v

\* Camera::view
View ==
    /\ view' = IF view_needs_recalc
               THEN recalc_view_matrix(pitch, yaw, roll, position)
               ELSE view
    /\ view_needs_recalc' = FALSE
    /\ camera_op' = "view"
    /\ UNCHANGED <<pc, other_than_camera, pitch, yaw, roll, position>>

\* Camera::set_position
SetPosition ==
    /\ \E x \in 0 .. MaxCoord :
          \E y \in 0 .. MaxCoord :
              \E z \in 0 .. MaxCoord :
                  position' = <<x, y, z>>
    /\ camera_op' = "set_position"
    /\ UNCHANGED <<pc, other_than_camera, pitch, yaw, roll, view, view_needs_recalc>>

\* Camera::update, for an InputHandler whose mouse moved by dx and dy.
CameraUpdate ==
    /\ \E dx \in -MaxMouse .. MaxMouse :
          \E dy \in -MaxMouse .. MaxMouse :
              /\ pitch + dy \in -MaxAngle .. MaxAngle
              /\ yaw + dx \in -MaxAngle .. MaxAngle
              /\ pitch' = clamp_f32(pitch + dy, -PitchLimit, PitchLimit)
              /\ yaw' = yaw + dx
    /\ view_needs_recalc' = TRUE
    /\ camera_op' = "update"
    /\ UNCHANGED <<pc, other_than_camera, roll, position, view>>

-----------------------------------------------------------------------------
(* The state after MainLoop::new *)

\* InputHandler::new, with the mouse at the origin.
InputAfterNew ==
    /\ mouse_prev_x = 0
    /\ mouse_prev_y = 0
    /\ mouse_diff_x = 0
    /\ mouse_diff_y = 0
    /\ forward = 0
    /\ right = 0
    /\ event = NoEvent

\* Camera::new
CameraAfterNew ==
    /\ pitch = 0
    /\ yaw = 0
    /\ roll = 0
    /\ position = <<0, 0, 0>>
    /\ view = IDENTITY
    /\ view_needs_recalc = TRUE
    /\ camera_op = "new"

\* The arguments Renderer::new gave the mesh functions; the meshes are moved
\* into into_mesh_data and gone.
GeometryAfterNew ==
    /\ grid_res = 2
    /\ grid_cells = 32
    /\ crosshair_length = 6
    /\ crosshair_thickness = 2
    /\ grid = NoMesh
    /\ crosshair = NoMesh

\* The main loop's variables.
LoopInit ==
    /\ running = TRUE
    /\ current_frame = 0
    /\ frame = 0
    /\ command_buffer = 0
    /\ image_index = 0
    /\ is_rendering = [s \in Slots |-> FenceCreatedSignaled]
    /\ semaphore = [h \in Semaphores |-> 0]
    /\ acquire_pending = {}
    /\ command_buffers = [s \in Slots |-> [state |-> "initial", desc_set |-> NoDescSet,
                        framebuffer |-> NoFramebuffer]]
    /\ graphics_queue = <<>>
    /\ present_queue = <<>>
    /\ swapchain_images = [i \in Images |-> "free"]
    /\ completed = {}
    /\ presented = {}
    /\ waited = <<>>
    /\ ubo_written = None
    /\ out_of_date = FALSE
    /\ failed_call = "none"
    /\ drop_step = 1
    /\ teardown_log = <<>>

\* The machine the main loop is followed on: one discrete GPU whose single
\* queue family draws and presents.
LoopPhysDevices ==
    << [phys_device    |-> 0,
        device_type    |-> "DISCRETE_GPU",
        queue_families |-> << [queue_flags     |-> {"GRAPHICS", "COMPUTE", "TRANSFER"},
                               present_support |-> TRUE] >>,
        extensions     |-> <<"VK_KHR_swapchain">>] >>

\* The device variables once Renderer::new has returned.
DeviceAfterNew ==
    /\ target_os = "linux"
    /\ phys_devices = LoopPhysDevices
    /\ phys_device_infos =
          SortedPhysDeviceInfos(gather_phys_device_infos(LoopPhysDevices, "linux"))
    /\ phys_device_info = phys_device_infos[1]
    /\ device = create_logical_device(phys_device_info, "linux")

\* The surface the main loop is followed on: it offers the preferred format
\* and the one present mode every surface has.
LoopFormats == <<PreferredFormat>>

LoopModes == <<"FIFO">>

\* Its extent is fixed, and it takes any number of images from one less than
\* the swapchain of the main loop has.
LoopSurfaceCapabilities ==
    [min_image_count  |-> NumImages - 1,
     max_image_count  |-> 0,
     current_extent   |-> [width |-> 1, height |-> 1],
     min_image_extent |-> [width |-> 1, height |-> 1],
     max_image_extent |-> [width |-> 1, height |-> 1]]

LoopWindow == [width |-> 1, height |-> 1]

\* The swapchain variables once Renderer::new has returned.
SwapchainAfterNew ==
    /\ formats = LoopFormats
    /\ modes = LoopModes
    /\ surface_capabilities = LoopSurfaceCapabilities
    /\ window = LoopWindow
    /\ swapchain_format = choose_swapchain_format(LoopFormats)
    /\ swapchain_extent = choose_swapchain_extent(LoopWindow, LoopSurfaceCapabilities)
    /\ present_mode = choose_swapchain_present_mode(LoopModes)
    /\ create_info = SwapchainCreateInfoKHR(LoopSurfaceCapabilities, swapchain_format,
                                            swapchain_extent, present_mode,
                                            phys_device_info.queue_family_indices)
    /\ swapchain_image_views = create_image_views(get_swapchain_images)
    /\ framebuffers = create_framebuffers(swapchain_image_views)

\* The memory types of the main loop's device: one of the device, one the
\* host sees.
LoopMemoryTypes == << {"DEVICE_LOCAL"}, {"HOST_VISIBLE", "HOST_COHERENT"} >>

\* The memory type variables once the last create_buffer of
\* create_buffer_of_type has returned.
MemoryTypeAfterNew ==
    /\ mem_properties = LoopMemoryTypes
    /\ req_type = 3
    /\ req_properties = {"DEVICE_LOCAL"}
    /\ memory_type_index = find_memory_type(3, {"DEVICE_LOCAL"}, LoopMemoryTypes)

\* The shaders the main loop is followed with: one word each.
LoopShader == <<0, 0, 0, 0>>

\* The mesh variables once into_mesh_data has returned.
MeshAfterNew ==
    /\ vert_shader_compiled = LoopShader
    /\ frag_shader_compiled = LoopShader
    /\ target_endian = "little"
    /\ mesh_created =
          BufferOfTypeObjects("vertex") \o BufferOfTypeObjects("index")
          \o << <<"pipeline_layout", "mesh">>, <<"shader_module", "vert">>,
                <<"shader_module", "frag">>, <<"pipeline", "mesh">> >>
    /\ shader_modules =
          << [ShaderModule("vert", LoopShader, "little") EXCEPT !.state = "destroyed"],
             [ShaderModule("frag", LoopShader, "little") EXCEPT !.state = "destroyed"] >>

\* The slice the upload variables hold in the main loop: one value of one byte.
LoopData == << <<0>> >>

\* The upload variables once create_buffer_of_type has returned.
UploadAfterNew ==
    /\ data = LoopData
    /\ size_of_T = 1
    /\ staging_buffer = "destroyed"
    /\ staging_memory = [state |-> "freed", bytes |-> <<>>]
    /\ buffer = [state |-> "alive",
                 size  |-> size_bytes(LoopData, 1),
                 usage |-> {"INDEX_BUFFER", "TRANSFER_DST"}]
    /\ memory = [state |-> "allocated", bytes |-> BytesOf(LoopData)]
    /\ cmd_buffer = [state    |-> "freed",
                     commands |-> << CopyRegion(size_bytes(LoopData, 1)) >>]
    /\ queue = <<>>
    /\ copied = TRUE

Init ==
    /\ pc = "loop"
    /\ LoopInit
    /\ GeometryAfterNew
    /\ InputAfterNew
    /\ CameraAfterNew
    /\ DeviceAfterNew
    /\ SwapchainAfterNew
    /\ UploadAfterNew
    /\ MeshAfterNew
    /\ MemoryTypeAfterNew

-----------------------------------------------------------------------------
(* MainLoop::run *)

\* `while self.running`
LoopTest ==
    /\ pc = "loop"
    /\ pc' = IF running THEN "poll_events" ELSE "drop"
    /\ UNCHANGED <<running, cpu_frame_vars, gpu_vars, command_buffers,
                   failed_call, teardown_vars>>
    /\ UNCHANGED setup_vars

\* poll_events: Event::KeyPress(Key::Escape) clears `running`.
PollEvents ==
    /\ pc = "poll_events"
    /\ \E escape \in BOOLEAN : running' = IF escape THEN FALSE ELSE running
    /\ pc' = "should_close"
    /\ UNCHANGED <<cpu_frame_vars, gpu_vars, command_buffers, failed_call,
                   teardown_vars>>
    /\ UNCHANGED setup_vars

\* `if self.window.should_close() { break; }`
ShouldClose ==
    /\ pc = "should_close"
    /\ \E close \in BOOLEAN : pc' = IF close THEN "drop" ELSE "update_data"
    /\ UNCHANGED <<running, cpu_frame_vars, gpu_vars, command_buffers,
                   failed_call, teardown_vars>>
    /\ UNCHANGED setup_vars

\* `self.renderer.update_data(..)`: update_ubo starts copying the uniform
\* buffer object into uniform_buffers_mappings[current_frame].
UpdateData ==
    /\ pc = "update_data"
    /\ frame < MaxFrames
    /\ pc' = "ubo_copy"
    /\ UNCHANGED <<running, cpu_frame_vars, gpu_vars, command_buffers,
                   failed_call, teardown_vars>>
    /\ UNCHANGED setup_vars

\* update_ubo: copy_from_nonoverlapping has written the mapping.
UpdateUbo ==
    /\ pc = "ubo_copy"
    /\ ubo_written' = current_frame
    /\ pc' = "present"
    /\ UNCHANGED <<running, current_frame, frame, command_buffer, image_index,
                   waited, out_of_date, gpu_vars, command_buffers, failed_call,
                   teardown_vars>>
    /\ UNCHANGED setup_vars

-----------------------------------------------------------------------------
(* Renderer::present *)

\* `let command_buffer = self.command_buffers[self.current_frame];`
Present ==
    /\ pc = "present"
    /\ command_buffer' = current_frame
    /\ pc' = "wait_for_fences"
    /\ UNCHANGED <<running, current_frame, frame, image_index, waited,
                   ubo_written, out_of_date, gpu_vars, command_buffers, failed_call,
                   teardown_vars>>
    /\ UNCHANGED setup_vars

\* begin_frame: wait_for_fences(&[is_rendering], true, timeout)
WaitForFences ==
    /\ pc = "wait_for_fences"
    /\ \E res \in Results :
        /\ res = "Ok" => FenceWaitReturns(current_frame)
        /\ pc' = check_err(res, "acquire_next_image")
        /\ failed_call' = Failed(res, "wait_for_fences")
        /\ waited' = IF res = "Ok" THEN Append(waited, current_frame) ELSE waited
    /\ UNCHANGED <<running, current_frame, frame, command_buffer, image_index,
                   ubo_written, out_of_date, gpu_vars, command_buffers,
                   teardown_vars>>
    /\ UNCHANGED setup_vars

\* begin_frame: where the thread goes once acquire_next_image has returned Ok
\* with its flag. `if out_of_date { self.recreate_swapchain(); return; }` is
\* commented out: the flag is not read.
after_acquire_Recreate(flag) ==
    IF flag THEN "recreate_swapchain" ELSE "reset_fences"

after_acquire(flag) == "reset_fences"

\* begin_frame: acquire_next_image(swapchain, timeout, image_available, null)
AcquireNextImage ==
    /\ pc = "acquire_next_image"
    /\ \/ \E img \in Images :
            /\ swapchain_images[img] = "free"
            /\ swapchain_images' = [swapchain_images EXCEPT ![img] = "acquired"]
            /\ acquire_pending' = acquire_pending \cup {image_available(current_frame)}
            /\ image_index' = img
            /\ out_of_date' \in BOOLEAN
            /\ pc' = check_err("Ok", after_acquire(out_of_date'))
            /\ failed_call' = Failed("Ok", "acquire_next_image")
       \/ /\ pc' = check_err("Err", "reset_fences")
          /\ failed_call' = Failed("Err", "acquire_next_image")
          /\ UNCHANGED <<swapchain_images, acquire_pending, image_index, out_of_date>>
    /\ UNCHANGED <<running, current_frame, frame, command_buffer, waited,
                   ubo_written, is_rendering, semaphore, graphics_queue, present_queue,
                   completed, presented, command_buffers, teardown_vars>>
    /\ UNCHANGED setup_vars

\* begin_frame: reset_fences(&[is_rendering]), the last call of begin_frame:
\* its local `_out_of_date` is gone when it returns.
ResetFences ==
    /\ pc = "reset_fences"
    /\ \E res \in Results :
        /\ is_rendering' = IF res = "Ok" THEN ResetFence(current_frame) ELSE is_rendering
        /\ pc' = check_err(res, "reset_command_buffer")
        /\ failed_call' = Failed(res, "reset_fences")
    /\ out_of_date' = FALSE
    /\ UNCHANGED <<running, current_frame, frame, command_buffer, image_index,
                   waited, ubo_written, semaphore, acquire_pending,
                   graphics_queue, present_queue, swapchain_images, completed,
                   presented, command_buffers, teardown_vars>>
    /\ UNCHANGED setup_vars

\* record_commands_to_buffer: reset_command_buffer(cmd_buffer, empty)
ResetCommandBuffer ==
    /\ pc = "reset_command_buffer"
    /\ \E res \in Results :
        /\ command_buffers' =
              IF res = "Ok"
              THEN [command_buffers EXCEPT ![command_buffer] =
                       [state |-> "initial", desc_set |-> NoDescSet,
                        framebuffer |-> NoFramebuffer]]
              ELSE command_buffers
        /\ pc' = check_err(res, "begin_command_buffer")
        /\ failed_call' = Failed(res, "reset_command_buffer")
    /\ UNCHANGED <<running, cpu_frame_vars, gpu_vars, teardown_vars>>
    /\ UNCHANGED setup_vars

\* record_commands_to_buffer: begin_command_buffer(cmd_buffer, &begin_info)
BeginCommandBuffer ==
    /\ pc = "begin_command_buffer"
    /\ \E res \in Results :
        /\ command_buffers' =
              IF res = "Ok"
              THEN [command_buffers EXCEPT ![command_buffer].state = "recording"]
              ELSE command_buffers
        /\ pc' = check_err(res, "record_draws")
        /\ failed_call' = Failed(res, "begin_command_buffer")
    /\ UNCHANGED <<running, cpu_frame_vars, gpu_vars, teardown_vars>>
    /\ UNCHANGED setup_vars

\* present: `self.framebuffers[image_index as usize]`, the framebuffer the
\* render pass is begun on.
RenderTarget_OfSlot(index) == framebuffers[current_frame + 1].handle

RenderTarget(index) == framebuffers[index + 1].handle

\* record_commands_to_buffer: the render pass and the draws of the two meshes;
\* the grid binds desc_sets[self.current_frame].
RecordDraws ==
    /\ pc = "record_draws"
    /\ command_buffers' =
          [command_buffers EXCEPT ![command_buffer].desc_set = current_frame,
                                  ![command_buffer].framebuffer =
                                      RenderTarget(image_index)]
    /\ pc' = "end_command_buffer"
    /\ UNCHANGED <<running, cpu_frame_vars, gpu_vars, failed_call, teardown_vars>>
    /\ UNCHANGED setup_vars

\* record_commands_to_buffer: end_command_buffer(cmd_buffer)
EndCommandBuffer ==
    /\ pc = "end_command_buffer"
    /\ \E res \in Results :
        /\ command_buffers' =
              IF res = "Ok"
              THEN [command_buffers EXCEPT ![command_buffer].state = "executable"]
              ELSE command_buffers
        /\ pc' = check_err(res, "queue_submit")
        /\ failed_call' = Failed(res, "end_command_buffer")
    /\ UNCHANGED <<running, cpu_frame_vars, gpu_vars, teardown_vars>>
    /\ UNCHANGED setup_vars

\* end_frame: queue_submit(graphics_queue, &[submit_info], is_rendering)
QueueSubmit ==
    /\ pc = "queue_submit"
    /\ \E res \in Results :
        /\ graphics_queue' =
              IF res = "Ok"
              THEN Append(graphics_queue, submit_info(current_frame, frame))
              ELSE graphics_queue
        /\ pc' = check_err(res, "queue_present")
        /\ failed_call' = Failed(res, "queue_submit")
    /\ UNCHANGED <<running, cpu_frame_vars, is_rendering, semaphore,
                   acquire_pending, present_queue, swapchain_images, completed,
                   presented, command_buffers, teardown_vars>>
    /\ UNCHANGED setup_vars

\* end_frame: queue_present(present_queue, &present_info), then the rotation
\* of current_frame.
QueuePresent ==
    /\ pc = "queue_present"
    /\ \/ /\ present_queue' = Append(present_queue,
                                     [frame |-> frame,
                                      image |-> image_index,
                                      wait  |-> PresentWaitSemaphore])
          /\ swapchain_images' = [swapchain_images EXCEPT ![image_index] = "queued"]
          /\ current_frame' = NextFrame(current_frame)
          /\ frame' = frame + 1
          /\ pc' = check_err("Ok", "loop")
          /\ failed_call' = Failed("Ok", "queue_present")
       \/ /\ pc' = check_err("Err", "loop")
          /\ failed_call' = Failed("Err", "queue_present")
          /\ UNCHANGED <<present_queue, swapchain_images, current_frame, frame>>
    /\ UNCHANGED <<running, command_buffer, image_index, waited, ubo_written,
                   out_of_date, is_rendering, semaphore, acquire_pending,
                   graphics_queue, completed,
                   presented, command_buffers, teardown_vars>>
    /\ UNCHANGED setup_vars

\* A panic of check_err unwinds out of run() and main(): the MainLoop and with
\* it the Renderer are dropped.  (A build that aborts on panic stays here.)
Unwind ==
    /\ pc = "panicked"
    /\ pc' = "drop"
    /\ UNCHANGED <<running, cpu_frame_vars, gpu_vars, command_buffers,
                   failed_call, teardown_vars>>
    /\ UNCHANGED setup_vars

-----------------------------------------------------------------------------
(* impl Drop for Renderer *)

DropStep ==
    /\ pc = "drop"
    /\ drop_step <= Len(DropCalls)
    /\ LET call == DropCalls[drop_step]
       IN  /\ call[1] = "device_wait_idle" => DeviceIdle
           /\ teardown_log' = Append(teardown_log, call)
    /\ drop_step' = drop_step + 1
    /\ pc' = IF drop_step = Len(DropCalls) THEN "exited" ELSE "drop"
    /\ UNCHANGED <<running, cpu_frame_vars, gpu_vars, command_buffers, failed_call>>
    /\ UNCHANGED setup_vars

-----------------------------------------------------------------------------
(* The device and the presentation engine *)

\* The presentation engine signals the semaphore an acquire was given.
AcquireSignal ==
    \E h \in acquire_pending :
        /\ acquire_pending' = acquire_pending \ {h}
        /\ semaphore' = [semaphore EXCEPT ![h] = @ + 1]
        /\ UNCHANGED <<pc, running, cpu_frame_vars, is_rendering, graphics_queue,
                       present_queue, swapchain_images, completed, presented,
                       command_buffers, failed_call, teardown_vars>>
        /\ UNCHANGED setup_vars

\* The oldest queued submission starts: its semaphore wait is satisfied.
GpuExecute ==
    \E i \in 1 .. Len(graphics_queue) :
        /\ graphics_queue[i].st = "queued"
        /\ \A j \in 1 .. (i - 1) : graphics_queue[j].st = "executing"
        /\ semaphore[graphics_queue[i].wait] > 0
        /\ semaphore' = [semaphore EXCEPT ![graphics_queue[i].wait] = @ - 1]
        /\ graphics_queue' = [graphics_queue EXCEPT ![i].st = "executing"]
        /\ UNCHANGED <<pc, running, cpu_frame_vars, is_rendering, acquire_pending,
                       present_queue, swapchain_images, completed, presented,
                       command_buffers, failed_call, teardown_vars>>
        /\ UNCHANGED setup_vars

\* The oldest submission completes: it signals its semaphore and its fence.
GpuComplete ==
    /\ graphics_queue # <<>>
    /\ LET sub == Head(graphics_queue)
       IN  /\ sub.st = "executing"
           /\ semaphore' = [semaphore EXCEPT ![sub.signal] = @ + 1]
           /\ is_rendering' = [is_rendering EXCEPT ![sub.fence] = TRUE]
           /\ completed' = completed \cup {sub.frame}
    /\ graphics_queue' = Tail(graphics_queue)
    /\ UNCHANGED <<pc, running, cpu_frame_vars, acquire_pending, present_queue,
                   swapchain_images, presented, command_buffers, failed_call,
                   teardown_vars>>
    /\ UNCHANGED setup_vars

\* The oldest presentation request is processed: its semaphore wait is
\* satisfied and the image goes to the screen and back to the swapchain.
PresentExecute ==
    /\ present_queue # <<>>
    /\ LET req == Head(present_queue)
       IN  /\ semaphore[req.wait] > 0
           /\ semaphore' = [semaphore EXCEPT ![req.wait] = @ - 1]
           /\ swapchain_images' = [swapchain_images EXCEPT ![req.image] = "free"]
           /\ presented' = presented \cup {req.frame}
    /\ present_queue' = Tail(present_queue)
    /\ UNCHANGED <<pc, running, cpu_frame_vars, is_rendering, acquire_pending,
                   graphics_queue, completed, command_buffers, failed_call,
                   teardown_vars>>
    /\ UNCHANGED setup_vars

-----------------------------------------------------------------------------

Next ==
    \/ LoopTest
    \/ PollEvents
    \/ ShouldClose
    \/ UpdateData
    \/ UpdateUbo
    \/ Present
    \/ WaitForFences
    \/ AcquireNextImage
    \/ ResetFences
    \/ ResetCommandBuffer
    \/ BeginCommandBuffer
    \/ RecordDraws
    \/ EndCommandBuffer
    \/ QueueSubmit
    \/ QueuePresent
    \/ Unwind
    \/ DropStep
    \/ AcquireSignal
    \/ GpuExecute
    \/ GpuComplete
    \/ PresentExecute

Spec == Init /\ [][Next]_vars

\* The steps of the thread inside a present() call.
PresentStep ==
    \/ Present
    \/ WaitForFences
    \/ AcquireNextImage
    \/ ResetFences
    \/ ResetCommandBuffer
    \/ BeginCommandBuffer
    \/ RecordDraws
    \/ EndCommandBuffer
    \/ QueueSubmit
    \/ QueuePresent

\* The thread in a present() call goes on whenever the call it is in can
\* return; the presentation engine signals the semaphore of every acquire and
\* processes every request whose semaphore is signaled; the device starts and
\* completes every submission whose semaphore wait is satisfied.
Fairness ==
    /\ WF_vars(PresentStep)
    /\ WF_vars(AcquireSignal)
    /\ WF_vars(GpuExecute)
    /\ WF_vars(GpuComplete)
    /\ WF_vars(PresentExecute)

FairSpec == Init /\ [][Next]_vars /\ Fairness

-----------------------------------------------------------------------------
(* Renderer::new followed from pick_phys_device to the logical device *)

\* The most devices an instance enumerates.
MaxDevices == 2

\* The most queue families of a device.
MaxFamilies == 3

\* What enumerate_device_extension_properties may return.
ExtensionLists ==
    {<<>>, <<"VK_KHR_swapchain">>, <<"VK_KHR_portability_subset">>,
     <<"VK_KHR_swapchain", "VK_KHR_portability_subset">>}

QueueFlagSets ==
    {{}, {"GRAPHICS"}, {"COMPUTE", "TRANSFER"}, {"GRAPHICS", "COMPUTE", "TRANSFER"}}

\* The queue family tables of at most n families with the given flag sets.
QueueFamilyTables(n, flag_sets) ==
    UNION {[1 .. k -> [queue_flags : flag_sets, present_support : BOOLEAN]] : k \in 0 .. n}

\* What the instance may report of one device.
DeviceShapes(types, tables, ext_lists) ==
    [device_type : types, queue_families : tables, extensions : ext_lists]

\* enumerate_physical_devices(): the devices in order; a device's handle is
\* its place.
Enumerated(shapes) ==
    [i \in DOMAIN shapes |->
        [phys_device    |-> i - 1,
         device_type    |-> shapes[i].device_type,
         queue_families |-> shapes[i].queue_families,
         extensions     |-> shapes[i].extensions]]

\* The upload variables before any upload, with the main loop's slice at hand.
UploadBeforeNew ==
    /\ data = LoopData
    /\ size_of_T = 1
    /\ staging_buffer = "null"
    /\ staging_memory = NoMemory
    /\ buffer = NoBuffer
    /\ memory = NoMemory
    /\ cmd_buffer = NoCommandBuffer
    /\ queue = <<>>
    /\ copied = FALSE

\* The memory type variables before the first create_buffer.
MemoryTypeBeforeNew ==
    /\ mem_properties = LoopMemoryTypes
    /\ req_type = 0
    /\ req_properties = {}
    /\ memory_type_index = None

\* The mesh variables before into_mesh_data, with the main loop's shaders.
MeshBeforeNew ==
    /\ vert_shader_compiled = LoopShader
    /\ frag_shader_compiled = LoopShader
    /\ target_endian = "little"
    /\ mesh_created = <<>>
    /\ shader_modules = <<>>

\* Nothing of the swapchain is chosen or created yet.
SwapchainNotCreated ==
    /\ swapchain_format = NoFormat
    /\ swapchain_extent = NoExtent
    /\ present_mode = NoPresentMode
    /\ create_info = NoCreateInfo
    /\ swapchain_image_views = <<>>
    /\ framebuffers = <<>>

\* The swapchain variables before create_swapchain, on the main loop's surface.
SwapchainBeforeNew ==
    /\ formats = LoopFormats
    /\ modes = LoopModes
    /\ surface_capabilities = LoopSurfaceCapabilities
    /\ window = LoopWindow
    /\ SwapchainNotCreated

DeviceBeforeNew ==
    /\ target_os \in TargetOs
    /\ phys_device_infos = <<>>
    /\ phys_device_info = NoPhysDeviceInfo
    /\ device = NoDevice

\* Any devices of any type, each of one queue family.
InitDevice ==
    /\ pc = "gather_phys_device_infos"
    /\ LoopInit
    /\ GeometryAfterNew
    /\ InputAfterNew
    /\ CameraAfterNew
    /\ DeviceBeforeNew
    /\ SwapchainBeforeNew
    /\ UploadBeforeNew
    /\ MeshBeforeNew
    /\ MemoryTypeBeforeNew
    /\ \E k \in 0 .. MaxDevices :
          \E shapes \in [1 .. k -> DeviceShapes(PhysicalDeviceTypes,
                                                QueueFamilyTables(1, {{}, {"GRAPHICS"}}) \ {<<>>},
                                                ExtensionLists)] :
              phys_devices = Enumerated(shapes)

\* One device with the required extensions and any queue family table.
InitQueueFamilies ==
    /\ pc = "gather_phys_device_infos"
    /\ LoopInit
    /\ GeometryAfterNew
    /\ InputAfterNew
    /\ CameraAfterNew
    /\ DeviceBeforeNew
    /\ SwapchainBeforeNew
    /\ UploadBeforeNew
    /\ MeshBeforeNew
    /\ MemoryTypeBeforeNew
    /\ \E shapes \in [1 .. 1 -> DeviceShapes({"DISCRETE_GPU"},
                                             QueueFamilyTables(MaxFamilies, QueueFlagSets),
                                             {<<"VK_KHR_swapchain",
                                                "VK_KHR_portability_subset">>})] :
          phys_devices = Enumerated(shapes)

NextDevice ==
    \/ GatherPhysDeviceInfos
    \/ PickPhysDevice
    \/ CreateLogicalDevice

SpecDevice == InitDevice /\ [][NextDevice]_vars

SpecQueueFamilies == InitQueueFamilies /\ [][NextDevice]_vars

-----------------------------------------------------------------------------
(* Renderer::new followed from choose_swapchain_format to the framebuffers *)

\* The most formats a surface offers.
MaxFormats == 2

SurfaceFormats ==
    [format : {"B8G8R8A8_UNORM", "B8G8R8A8_SRGB", "R8G8B8A8_UNORM"},
     color_space : {"SRGB_NONLINEAR", "EXTENDED_SRGB_LINEAR"}]

\* FIFO is the mode every surface supports.
PresentModes == {"IMMEDIATE", "MAILBOX", "FIFO", "FIFO_RELAXED"}

\* The lists of 1 to n different elements of S.
ListsWithoutRepeats(S, n) ==
    UNION {{l \in [1 .. k -> S] : \A i, j \in 1 .. k : l[i] = l[j] => i = j} : k \in 1 .. n}

\* Any formats and any present modes, FIFO among them, in any order.
InitSwapchain ==
    /\ pc = "choose_swapchain_format"
    /\ LoopInit
    /\ GeometryAfterNew
    /\ InputAfterNew
    /\ CameraAfterNew
    /\ DeviceAfterNew
    /\ UploadBeforeNew
    /\ MeshBeforeNew
    /\ MemoryTypeBeforeNew
    /\ formats \in ListsWithoutRepeats(SurfaceFormats, MaxFormats)
    /\ modes \in {l \in ListsWithoutRepeats(PresentModes, Cardinality(PresentModes)) :
                     \E i \in DOMAIN l : l[i] = "FIFO"}
    /\ surface_capabilities = LoopSurfaceCapabilities
    /\ window = LoopWindow
    /\ SwapchainNotCreated

NextSwapchain ==
    \/ ChooseSwapchainFormat
    \/ ChooseSwapchainExtent
    \/ CreateSwapchain
    \/ CreateImageViews
    \/ CreateFramebuffers

SpecSwapchain == InitSwapchain /\ [][NextSwapchain]_vars

\* The greatest width and height of a window and of a surface's limits.
MaxExtent == 2

Extents == [width : 0 .. MaxExtent, height : 0 .. MaxExtent]

\* The extent of a surface whose size the swapchain decides.
NoFixedExtent == [width |-> u32_MAX, height |-> u32_MAX]

\* A window of any size on a surface of any limits, with an extent of its own
\* or without one.
InitExtent ==
    /\ pc = "choose_swapchain_format"
    /\ LoopInit
    /\ GeometryAfterNew
    /\ InputAfterNew
    /\ CameraAfterNew
    /\ DeviceAfterNew
    /\ UploadBeforeNew
    /\ MeshBeforeNew
    /\ MemoryTypeBeforeNew
    /\ formats = LoopFormats
    /\ modes = LoopModes
    /\ window \in Extents
    /\ \E current \in Extents \cup {NoFixedExtent} :
          \E min \in Extents :
              \E max \in Extents :
                  surface_capabilities =
                      [LoopSurfaceCapabilities EXCEPT !.current_extent   = current,
                                                      !.min_image_extent = min,
                                                      !.max_image_extent = max]
    /\ SwapchainNotCreated

SpecExtent == InitExtent /\ [][NextSwapchain]_vars

\* The most images a surface takes at least.
MaxImageCount == 3

\* A surface of any image counts (a most of 0 is no most), on a device of any
\* queue family table that get_queue_family_indices accepts.
InitCreateInfo ==
    /\ pc = "choose_swapchain_format"
    /\ LoopInit
    /\ GeometryAfterNew
    /\ InputAfterNew
    /\ CameraAfterNew
    /\ UploadBeforeNew
    /\ MeshBeforeNew
    /\ MemoryTypeBeforeNew
    /\ target_os = "linux"
    /\ \E shapes \in [1 .. 1 -> DeviceShapes({"DISCRETE_GPU"},
                                             QueueFamilyTables(MaxFamilies, QueueFlagSets),
                                             {<<"VK_KHR_swapchain">>})] :
          /\ phys_devices = Enumerated(shapes)
          /\ phys_device_infos =
                SortedPhysDeviceInfos(gather_phys_device_infos(Enumerated(shapes), "linux"))
    /\ Len(phys_device_infos) > 0
    /\ phys_device_info = phys_device_infos[1]
    /\ device = create_logical_device(phys_device_info, "linux")
    /\ formats = LoopFormats
    /\ modes = LoopModes
    /\ window = LoopWindow
    /\ \E min \in 1 .. MaxImageCount :
          \E max \in {0} \cup (min .. MaxImageCount) :
              surface_capabilities =
                  [LoopSurfaceCapabilities EXCEPT !.min_image_count = min,
                                                  !.max_image_count = max]
    /\ SwapchainNotCreated

SpecCreateInfo == InitCreateInfo /\ [][NextSwapchain]_vars

-----------------------------------------------------------------------------
(* One call of create_buffer_of_type, with the device executing the copy *)

\* The most values of a slice.
MaxLen == 2

\* The values of a byte the uploads are followed with.
Bytes == {0, 1}

\* The sizes of T the uploads are followed with.
SizesOfT == {1, 2}

\* The non-empty slices of at most n values of `size` bytes each.
Slices(n, size) == UNION {[1 .. k -> [1 .. size -> Bytes]] : k \in 1 .. n}

\* Any slice of values of either size, nothing created yet.
InitUpload ==
    /\ pc = "create_buffer_of_type"
    /\ LoopInit
    /\ GeometryAfterNew
    /\ InputAfterNew
    /\ CameraAfterNew
    /\ DeviceAfterNew
    /\ SwapchainAfterNew
    /\ MeshBeforeNew
    /\ MemoryTypeBeforeNew
    /\ size_of_T \in SizesOfT
    /\ data \in Slices(MaxLen, size_of_T)
    /\ staging_buffer = "null"
    /\ staging_memory = NoMemory
    /\ buffer = NoBuffer
    /\ memory = NoMemory
    /\ cmd_buffer = NoCommandBuffer
    /\ queue = <<>>
    /\ copied = FALSE

NextUpload ==
    \/ CreateStagingBuffer
    \/ UploadToBufferMemory
    \/ CreateDestinationBuffer
    \/ RecordCopyBuffers
    \/ SubmitCopy
    \/ QueueWaitIdle
    \/ FreeCopyCommandBuffer
    \/ DestroyStagingBuffer
    \/ FreeStagingMemory
    \/ GpuCopy

SpecUpload == InitUpload /\ [][NextUpload]_vars

-----------------------------------------------------------------------------
(* One call of Mesh::into_mesh_data *)

\* The most bytes of a shader.
MaxShaderLen == 5

\* The shaders of at most n bytes.
Shaders(n) == UNION {[1 .. k -> Bytes] : k \in 0 .. n}

\* Any two shaders, on a target of either byte order, nothing created yet.
InitMesh ==
    /\ pc = "into_mesh_data"
    /\ LoopInit
    /\ GeometryAfterNew
    /\ InputAfterNew
    /\ CameraAfterNew
    /\ DeviceAfterNew
    /\ SwapchainAfterNew
    /\ UploadAfterNew
    /\ MemoryTypeAfterNew
    /\ vert_shader_compiled \in Shaders(MaxShaderLen)
    /\ frag_shader_compiled \in Shaders(MaxShaderLen)
    /\ target_endian \in {"little", "big"}
    /\ mesh_created = <<>>
    /\ shader_modules = <<>>

NextMesh ==
    \/ CreateVertexBuffer
    \/ CreateIndexBuffer
    \/ CreatePipelineLayout
    \/ CreateVertShaderModule
    \/ CreateFragShaderModule
    \/ CreateGraphicsPipelines

SpecMesh == InitMesh /\ [][NextMesh]_vars

-----------------------------------------------------------------------------
(* One call of find_memory_type *)

\* The most memory types of a physical device.
MaxMemoryTypes == 3

MemoryPropertyFlags == {"DEVICE_LOCAL", "HOST_VISIBLE", "HOST_COHERENT"}

\* Any memory types, any required flags, and any type bits among the types
\* of the device, one at least.
InitMemoryType ==
    /\ pc = "find_memory_type"
    /\ LoopInit
    /\ GeometryAfterNew
    /\ InputAfterNew
    /\ CameraAfterNew
    /\ DeviceAfterNew
    /\ SwapchainAfterNew
    /\ UploadBeforeNew
    /\ MeshBeforeNew
    /\ \E n \in 1 .. MaxMemoryTypes :
          /\ mem_properties \in [1 .. n -> SUBSET MemoryPropertyFlags]
          /\ req_type \in 1 .. (2 ^ n - 1)
    /\ req_properties \in SUBSET MemoryPropertyFlags
    /\ memory_type_index = None

NextMemoryType == FindMemoryType

SpecMemoryType == InitMemoryType /\ [][NextMemoryType]_vars

-----------------------------------------------------------------------------
(* The two mesh functions *)

\* The most cells of a grid on each side of the origin.
MaxCells == 3

\* The greatest of the lengths the mesh functions are given.
MaxRes == 2

\* A grid of any resolution and number of cells and a crosshair of any length
\* and thickness in a window of any size.
InitGeometry ==
    /\ pc = "create_grid_mesh"
    /\ LoopInit
    /\ DeviceAfterNew
    /\ UploadBeforeNew
    /\ MeshBeforeNew
    /\ MemoryTypeBeforeNew
    /\ InputAfterNew
    /\ CameraAfterNew
    /\ formats = LoopFormats
    /\ modes = LoopModes
    /\ surface_capabilities = LoopSurfaceCapabilities
    /\ window \in Extents
    /\ SwapchainNotCreated
    /\ grid_res \in 1 .. MaxRes
    /\ grid_cells \in 0 .. MaxCells
    /\ crosshair_length \in 1 .. MaxRes
    /\ crosshair_thickness \in 0 .. MaxRes
    /\ grid = NoMesh
    /\ crosshair = NoMesh

NextGeometry ==
    \/ CreateGridMesh
    \/ CreateCrosshairMesh

SpecGeometry == InitGeometry /\ [][NextGeometry]_vars

-----------------------------------------------------------------------------
(* The InputHandler under any events *)

\* InputHandler::new with the mouse anywhere.
InitInput ==
    /\ pc = "poll_events"
    /\ LoopInit
    /\ DeviceAfterNew
    /\ SwapchainAfterNew
    /\ UploadAfterNew
    /\ MeshAfterNew
    /\ MemoryTypeAfterNew
    /\ GeometryAfterNew
    /\ CameraAfterNew
    /\ mouse_prev_x \in 0 .. MaxMouse
    /\ mouse_prev_y \in 0 .. MaxMouse
    /\ mouse_diff_x = 0
    /\ mouse_diff_y = 0
    /\ forward = 0
    /\ right = 0
    /\ event = NoEvent

NextInput ==
    \/ HandleMouse
    \/ HandleKeyPress
    \/ HandleKeyRelease

SpecInput == InitInput /\ [][NextInput]_vars

-----------------------------------------------------------------------------
(* The Camera under any calls *)

InitCamera ==
    /\ pc = "poll_events"
    /\ LoopInit
    /\ DeviceAfterNew
    /\ SwapchainAfterNew
    /\ UploadAfterNew
    /\ MeshAfterNew
    /\ MemoryTypeAfterNew
    /\ GeometryAfterNew
    /\ InputAfterNew
    /\ CameraAfterNew

NextCamera ==
    \/ SetPosition
    \/ CameraUpdate
    \/ View

SpecCamera == InitCamera /\ [][NextCamera]_vars

-----------------------------------------------------------------------------
(* Frame slots: reuse is gated by the slot's fence *)

\* The slot whose command buffer the thread is resetting or recording.
Recording(s) ==
    /\ pc \in {"reset_command_buffer", "begin_command_buffer", "record_draws",
               "end_command_buffer"}
    /\ command_buffer = s

\* C1: a slot's command buffer is reset or recorded only when no submission
\* that executes it is queued or executing on the GPU.
C1_NoRecordWhileExecuting ==
    \A s \in Slots :
        (Recording(s) \/ command_buffers[s].state \in {"initial", "recording"})
            => ~InFlight(s)

\* A later frame records slot 0's command buffer again while the frame after
\* its previous use is still in flight.
C1_Witness ==
    /\ Recording(0)
    /\ command_buffers[0].state = "recording"
    /\ frame >= FRAMES_IN_FLIGHT
    /\ InFlight(1)

\* C2: once the fence wait of frame k >= N has returned, the submission of
\* frame k - N has completed; the fence waits of frames 0 .. N-1 find their
\* fence signaled, so no earlier frame holds them up.
C2_WaitBlocksOnFrameKMinusN ==
    /\ (pc \in (FramePcs \ {"present", "wait_for_fences"}) /\ frame >= FRAMES_IN_FLIGHT)
          => (frame - FRAMES_IN_FLIGHT) \in completed
    /\ (pc = "wait_for_fences" /\ frame < FRAMES_IN_FLIGHT)
          => is_rendering[current_frame]

\* Frame N's wait has just returned: frame 0 has completed and frame 1 has not.
C2_Witness ==
    /\ pc = "acquire_next_image"
    /\ frame = FRAMES_IN_FLIGHT
    /\ 0 \in completed
    /\ 1 \notin completed

\* C3: at most N submissions are in flight.
C3_AtMostNInFlight == Len(graphics_queue) <= FRAMES_IN_FLIGHT

\* N frames are in flight and the thread is held at the next frame's wait.
C3_Witness ==
    /\ Len(graphics_queue) = FRAMES_IN_FLIGHT
    /\ pc = "wait_for_fences"
    /\ ~is_rendering[current_frame]

\* C4: current_frame is 0 at the start, stays in [0, N), becomes
\* (current_frame + 1) mod N when a present() returns and changes at no other
\* step; every frame waits one fence, and any N consecutive waits are on N
\* different slots.
C4_CurrentFrameCycles ==
    /\ [](/\ current_frame \in 0 .. (FRAMES_IN_FLIGHT - 1)
          /\ (frame = 0 => current_frame = 0)
          /\ Len(waited) \in {frame, frame + 1}
          /\ \A i \in 1 .. (Len(waited) - FRAMES_IN_FLIGHT + 1) :
                {waited[i + j] : j \in 0 .. (FRAMES_IN_FLIGHT - 1)} = Slots)
    /\ [][current_frame' = IF frame' = frame + 1
                           THEN (current_frame + 1) % FRAMES_IN_FLIGHT
                           ELSE current_frame]_vars

\* Three frames have returned and the fourth has waited.
C4_Witness ==
    /\ frame = FRAMES_IN_FLIGHT + 1
    /\ Len(waited) = frame + 1
    /\ current_frame = 1

\* C5: a submission on the GPU has a command buffer whose recording has
\* ended, and a frame's image is presented only after the frame's submission
\* has completed.
C5_SubmitAfterRecordPresentAfterRender ==
    /\ \A i \in 1 .. Len(graphics_queue) :
          command_buffers[graphics_queue[i].cmd].state = "executable"
    /\ presented \subseteq completed

\* Frame 0 has been presented while frame 1 is still executing.
C5_Witness ==
    /\ 0 \in presented
    /\ \E i \in 1 .. Len(graphics_queue) :
          graphics_queue[i].frame = 1 /\ graphics_queue[i].st = "executing"
    /\ Len(present_queue) > 0

\* C6: while update_ubo copies into slot s's mapped uniform buffer, no
\* submission that reads uniform buffer s is queued or executing.
C6_UboWriteFenceGated ==
    pc = "ubo_copy" => ~ReadsUniformBuffer(current_frame)

-----------------------------------------------------------------------------
(* Teardown *)

IsDestroy(call) == call[1] = "destroy"

IsWaitIdle(call) == call[1] = "device_wait_idle"

Object(call) == <<call[2], call[3]>>

CreatedAt(obj) == CHOOSE i \in 1 .. Len(CreationOrder) : CreationOrder[i] = obj

\* C7: every destroy or free of the teardown comes after a device_wait_idle
\* has returned, and from the first of them on no queue has work outstanding.
C7_DestroyAfterWaitIdle ==
    \A i \in 1 .. Len(teardown_log) :
        IsDestroy(teardown_log[i])
            => /\ \E j \in 1 .. (i - 1) : IsWaitIdle(teardown_log[j])
               /\ DeviceIdle

\* The teardown destroys objects after frames were submitted with them.
C7_Witness ==
    /\ \E i \in 1 .. Len(teardown_log) : IsDestroy(teardown_log[i])
    /\ frame >= FRAMES_IN_FLIGHT
    /\ Cardinality(completed) = frame

IsPrefix(a, b) == Len(a) <= Len(b) /\ \A i \in 1 .. Len(a) : a[i] = b[i]

SwapchainKinds == {"framebuffer", "render_pass", "command_buffer", "image_view",
                   "swapchain"}

OfSwapchain(call) == call[2] \in SwapchainKinds

OfSwapchainOrPipeline(call) == call[2] \in SwapchainKinds \cup {"pipeline"}

\* The step of the swapchain teardown order a call belongs to.
StepOf(call) ==
    CASE call[2] = "framebuffer"    -> 1
      [] call[2] = "pipeline"       -> 2
      [] call[2] = "render_pass"    -> 2
      [] call[2] = "command_buffer" -> 3
      [] call[2] = "image_view"     -> 4
      [] call[2] = "swapchain"      -> 5

-----------------------------------------------------------------------------
(* Errors *)

\* C10: the step at which a frame's call fails panics: it leaves current_frame,
\* the frame count and the queues as they were; after it the thread takes no
\* step of a frame or of the main loop again, and queues nothing.
C10_FailureIsFatal ==
    [][/\ failed_call' # failed_call
          => /\ failed_call = "none"
             /\ pc' = "panicked"
             /\ UNCHANGED <<current_frame, frame, graphics_queue, present_queue,
                            is_rendering, command_buffers>>
       /\ failed_call # "none"
          => /\ pc' \in {"panicked", "drop", "exited"}
             /\ failed_call' = failed_call
             /\ UNCHANGED <<current_frame, frame, command_buffer, image_index,
                            waited, command_buffers>>
             /\ Len(graphics_queue') <= Len(graphics_queue)
             /\ Len(present_queue') <= Len(present_queue)]_vars

\* A submit failed in the third frame, after the frame's fence was reset.
C10_Witness ==
    /\ failed_call = "queue_submit"
    /\ pc = "panicked"
    /\ frame = FRAMES_IN_FLIGHT
    /\ ~is_rendering[current_frame]

-----------------------------------------------------------------------------
(* Device selection *)

Range(seq) == {seq[i] : i \in DOMAIN seq}

\* pick_phys_device has returned a PhysDeviceInfo.
DevicePicked == pc \in {"create_logical_device", "device_created"}

\* The enumerated device pick_phys_device returned.
PickedDevice == phys_devices[phys_device_info.phys_device + 1]

\* The device offers every required device extension of the build.
HasRequiredExtensions(d) ==
    \A e \in Range(REQ_DEVICE_EXTENSIONS(target_os)) : e \in Range(d.extensions)

\* The device has a family that draws and a family that presents to the surface.
HasRequiredQueues(d) ==
    /\ \E i \in DOMAIN d.queue_families : "GRAPHICS" \in d.queue_families[i].queue_flags
    /\ \E i \in DOMAIN d.queue_families : d.queue_families[i].present_support

Survives(d) == HasRequiredQueues(d) /\ HasRequiredExtensions(d)

\* C11: the device pick_phys_device returns offers every required device
\* extension, whatever the types and the order of the enumerated devices.
C11_SelectedHasRequiredExtensions ==
    DevicePicked => HasRequiredExtensions(PickedDevice)

\* A discrete GPU enumerated first lacks a required extension, and the CPU
\* device after it was picked.
C11_Witness ==
    /\ pc = "device_created"
    /\ Len(phys_devices) = 2
    /\ phys_devices[1].device_type = "DISCRETE_GPU"
    /\ HasRequiredQueues(phys_devices[1])
    /\ ~HasRequiredExtensions(phys_devices[1])
    /\ phys_devices[2].device_type = "CPU"
    /\ phys_device_info.phys_device = 1

\* The ranking of the device types: discrete 1, integrated 2, virtual 3,
\* CPU 4, other 5.
TypeRank(type_) ==
    CASE type_ = "DISCRETE_GPU"   -> 1
      [] type_ = "INTEGRATED_GPU" -> 2
      [] type_ = "VIRTUAL_GPU"    -> 3
      [] type_ = "CPU"            -> 4
      [] type_ = "OTHER"          -> 5

\* C12: the picked device is one of the surviving devices, and no surviving
\* device has a type of better rank.
C12_SelectedHasBestType ==
    DevicePicked =>
        /\ Survives(PickedDevice)
        /\ phys_device_info.properties.device_type = PickedDevice.device_type
        /\ \A i \in DOMAIN phys_devices :
              Survives(phys_devices[i])
              => TypeRank(PickedDevice.device_type) <= TypeRank(phys_devices[i].device_type)

\* [integrated, discrete], both suitable: the discrete device was picked.
C12_Witness ==
    /\ pc = "device_created"
    /\ Len(phys_devices) = 2
    /\ Survives(phys_devices[1]) /\ Survives(phys_devices[2])
    /\ phys_devices[1].device_type = "INTEGRATED_GPU"
    /\ phys_devices[2].device_type = "DISCRETE_GPU"
    /\ phys_device_info.phys_device = 1

\* C13: of the surviving devices whose type has the rank of the picked one,
\* the picked one was enumerated first.
C13_FirstEnumeratedWinsTies ==
    DevicePicked =>
        \A i \in DOMAIN phys_devices :
            /\ Survives(phys_devices[i])
            /\ TypeRank(phys_devices[i].device_type) = TypeRank(PickedDevice.device_type)
            => phys_device_info.phys_device <= phys_devices[i].phys_device

\* Two suitable devices of one type: the first was picked.
C13_Witness ==
    /\ pc = "device_created"
    /\ Len(phys_devices) = 2
    /\ Survives(phys_devices[1]) /\ Survives(phys_devices[2])
    /\ phys_devices[1].device_type = phys_devices[2].device_type
    /\ phys_device_info.phys_device = 0

\* C14: when no enumerated device survives, pick_phys_device panics: it
\* returns no device, no logical device is created and no step follows the
\* panic; when some device survives, it does not panic and returns one of
\* the enumerated devices.
C14_NoSuitableDeviceIsFatal ==
    /\ [](/\ (\A i \in DOMAIN phys_devices : ~Survives(phys_devices[i]))
             => /\ pc \in {"gather_phys_device_infos", "pick_phys_device", "panicked"}
                /\ phys_device_info = NoPhysDeviceInfo
                /\ device = NoDevice
          /\ (\E i \in DOMAIN phys_devices : Survives(phys_devices[i]))
             => /\ pc # "panicked"
                /\ DevicePicked
                   => phys_device_info.phys_device \in
                          {phys_devices[i].phys_device : i \in DOMAIN phys_devices})
    /\ [][pc = "panicked" => pc' = "panicked"]_vars

\* Two devices were enumerated, neither survives, and the pick has panicked.
C14_Witness ==
    /\ pc = "panicked"
    /\ Len(phys_devices) = 2
    /\ HasRequiredExtensions(phys_devices[1])
    /\ ~HasRequiredQueues(phys_devices[1])
    /\ HasRequiredQueues(phys_devices[2])
    /\ ~HasRequiredExtensions(phys_devices[2])

\* C15: when some queue family of the picked device both draws and presents
\* to the surface, the graphics family and the present family chosen for it
\* are the same family.
C15_SameFamilyWhenOneOffersBoth ==
    DevicePicked =>
        LET table == PickedDevice.queue_families
            chosen == phys_device_info.queue_family_indices
        IN  (\E i \in DOMAIN table :
                "GRAPHICS" \in table[i].queue_flags /\ table[i].present_support)
            => chosen.graphics = chosen.present

-----------------------------------------------------------------------------
(* The swapchain *)

\* The teardown has destroyed nothing yet.
NothingDestroyed == \A i \in DOMAIN teardown_log : ~IsDestroy(teardown_log[i])

\* C16: from the construction of the renderer until the teardown destroys
\* its first object, there are as many image views and as many framebuffers
\* as swapchain images; view i is a view of image i and framebuffer i has
\* view i as its attachment.
C16_ImageViewFramebufferCounts ==
    NothingDestroyed =>
        /\ Len(swapchain_image_views) = Cardinality(DOMAIN swapchain_images)
        /\ Len(framebuffers) = Cardinality(DOMAIN swapchain_images)
        /\ \A i \in DOMAIN swapchain_image_views :
              /\ swapchain_image_views[i].image = <<"image", i - 1>>
              /\ i - 1 \in DOMAIN swapchain_images
        /\ \A i \in DOMAIN framebuffers :
              framebuffers[i].attachment = swapchain_image_views[i].handle

\* Frames have been presented and an image is queued for presentation.
C16_Witness ==
    /\ NothingDestroyed
    /\ frame > FRAMES_IN_FLIGHT
    /\ \E img \in Images : swapchain_images[img] = "queued"
    /\ Len(framebuffers) = NumImages

\* The ranking of the present modes: immediate, relaxed FIFO, mailbox, other.
ModeRank(mode) ==
    CASE mode = "IMMEDIATE"    -> 1
      [] mode = "FIFO_RELAXED" -> 2
      [] mode = "MAILBOX"      -> 3
      [] OTHER                 -> 4

\* choose_swapchain_present_mode has returned.
PresentModeChosen == pc \in {"create_image_views", "create_framebuffers", "swapchain_created"}

\* C19: the present mode chosen is one of the available modes, none of the
\* available modes has a better rank, and it is "immediate" whenever
\* "immediate" is available, in whatever order the modes are listed.
C19_BestPresentMode ==
    PresentModeChosen =>
        /\ present_mode \in Range(modes)
        /\ \A m \in Range(modes) : ModeRank(present_mode) <= ModeRank(m)
        /\ "IMMEDIATE" \in Range(modes) => present_mode = "IMMEDIATE"

\* All four modes are available, "immediate" listed last, and it was chosen.
C19_Witness ==
    /\ PresentModeChosen
    /\ Len(modes) = 4
    /\ modes[1] = "MAILBOX"
    /\ modes[4] = "IMMEDIATE"
    /\ present_mode = "IMMEDIATE"

\* choose_swapchain_format has returned.
FormatChosen == pc \in {"choose_swapchain_extent", "create_swapchain",
                        "create_image_views", "create_framebuffers",
                        "swapchain_created"}

\* C20: the format chosen is the pair (B8G8R8A8_UNORM, SRGB_NONLINEAR) when
\* the list has that pair at any place, and the first format of the list
\* when it has not.
C20_PreferredFormatOrFirst ==
    FormatChosen =>
        IF PreferredFormat \in Range(formats)
        THEN swapchain_format = PreferredFormat
        ELSE swapchain_format = formats[1]

\* The preferred pair is listed last, after a format that shares its format
\* and not its color space, and it was chosen.
C20_Witness ==
    /\ FormatChosen
    /\ Len(formats) = 2
    /\ formats[1] = [format |-> "B8G8R8A8_UNORM", color_space |-> "EXTENDED_SRGB_LINEAR"]
    /\ formats[2] = PreferredFormat
    /\ swapchain_format = formats[2]

-----------------------------------------------------------------------------
(* The staged upload *)

\* C17: when create_buffer_of_type has returned, the destination buffer is
\* alive with a size of data.len() * size_of::<T>() bytes, and its memory
\* holds that many bytes: the bytes of the values of data, in their order.
C17_UploadIsFaithful ==
    pc = "uploaded" =>
        /\ buffer.state = "alive"
        /\ buffer.size = Len(data) * size_of_T
        /\ memory.state = "allocated"
        /\ Len(memory.bytes) = Len(data) * size_of_T
        /\ \A k \in DOMAIN data : \A b \in 1 .. size_of_T :
              memory.bytes[(k - 1) * size_of_T + b] = data[k][b]

\* Two values of two bytes each, the second unlike the first, were uploaded.
C17_Witness ==
    /\ pc = "uploaded"
    /\ size_of_T = 2
    /\ data = << <<0, 1>>, <<1, 1>> >>
    /\ memory.bytes = <<0, 1, 1, 1>>

\* The thread has passed queue_wait_idle.
PastQueueWaitIdle ==
    pc \in {"free_command_buffers", "destroy_staging_buffer", "free_staging_memory",
            "uploaded"}

\* C18: the thread gets past queue_wait_idle only when the copy has
\* completed; the staging buffer is destroyed, its memory freed and the
\* one-shot command buffer freed only when the copy has completed and the
\* queue is idle; when create_buffer_of_type has returned, all three are gone.
C18_StagingOutlivesCopy ==
    /\ PastQueueWaitIdle => copied /\ queue = <<>>
    /\ \/ staging_buffer = "destroyed"
       \/ staging_memory.state = "freed"
       \/ cmd_buffer.state = "freed"
       => copied /\ queue = <<>>
    /\ pc = "uploaded"
       => /\ staging_buffer = "destroyed"
          /\ staging_memory.state = "freed"
          /\ cmd_buffer.state = "freed"

\* The upload has returned: the copy was executed while the thread waited,
\* and the staging buffer is gone.
C18_Witness ==
    /\ pc = "uploaded"
    /\ copied
    /\ staging_buffer = "destroyed"
    /\ staging_memory.state = "freed"
    /\ Len(data) = MaxLen


-----------------------------------------------------------------------------
(* The extent, the image count and the sharing mode of the swapchain *)

ExtentChosen == pc \in {"create_swapchain", "create_image_views", "create_framebuffers",
                        "swapchain_created"}

SwapchainCreated == pc \in {"create_image_views", "create_framebuffers",
                            "swapchain_created"}

\* The surface leaves the size of the swapchain to the application.
HasNoFixedExtent == surface_capabilities.current_extent.width = u32_MAX

\* `chosen` is `wanted` brought into [min, max].
Clamped(chosen, wanted, min, max) ==
    /\ min <= chosen
    /\ chosen <= max
    /\ wanted > max => chosen = max
    /\ wanted < min => chosen = min
    /\ (min <= wanted /\ wanted <= max) => chosen = wanted

\* C21: when the surface reports no fixed extent, each dimension of the extent
\* chosen lies between the surface's least and greatest image extent: a window
\* dimension above the greatest is brought down to it, one below the least is
\* raised to it, and one in between is kept; create_swapchain is given that
\* extent.
C21_ExtentClampedToSurfaceLimits ==
    /\ (ExtentChosen /\ HasNoFixedExtent) =>
          /\ Clamped(swapchain_extent.width, window.width,
                     surface_capabilities.min_image_extent.width,
                     surface_capabilities.max_image_extent.width)
          /\ Clamped(swapchain_extent.height, window.height,
                     surface_capabilities.min_image_extent.height,
                     surface_capabilities.max_image_extent.height)
    /\ (SwapchainCreated /\ HasNoFixedExtent) =>
          create_info.image_extent = swapchain_extent

\* An extent was chosen for a window too wide and too low for the surface.
C21_Witness ==
    /\ SwapchainCreated
    /\ HasNoFixedExtent
    /\ window.width > surface_capabilities.max_image_extent.width
    /\ window.height < surface_capabilities.min_image_extent.height
    /\ create_info.image_extent.width = surface_capabilities.max_image_extent.width
    /\ create_info.image_extent.height = surface_capabilities.min_image_extent.height

\* C22: when the surface reports a fixed current extent, the extent chosen is
\* that extent in both dimensions, whatever the size of the window; the size
\* of the window is used only when the surface has no fixed extent.
C22_FixedExtentIsTaken ==
    /\ (ExtentChosen /\ ~HasNoFixedExtent) =>
          /\ swapchain_extent.width = surface_capabilities.current_extent.width
          /\ swapchain_extent.height = surface_capabilities.current_extent.height
    /\ (SwapchainCreated /\ ~HasNoFixedExtent) =>
          create_info.image_extent = surface_capabilities.current_extent

\* The fixed extent was taken for a window of another size, outside the
\* surface's limits.
C22_Witness ==
    /\ SwapchainCreated
    /\ ~HasNoFixedExtent
    /\ window.width # surface_capabilities.current_extent.width
    /\ window.height # surface_capabilities.current_extent.height
    /\ surface_capabilities.current_extent.width
          > surface_capabilities.max_image_extent.width
    /\ swapchain_extent = surface_capabilities.current_extent

\* C23: the image count asked for is min_image_count + 1, but max_image_count
\* when that is nonzero and min_image_count + 1 exceeds it; a max_image_count
\* of 0 never caps it.
C23_ImageCount ==
    SwapchainCreated =>
        LET min == surface_capabilities.min_image_count
            max == surface_capabilities.max_image_count
        IN  /\ max = 0 => create_info.min_image_count = min + 1
            /\ (max # 0 /\ min + 1 > max) => create_info.min_image_count = max
            /\ (max # 0 /\ min + 1 <= max) => create_info.min_image_count = min + 1

\* The count was capped by the surface's most.
C23_Witness ==
    /\ SwapchainCreated
    /\ surface_capabilities.max_image_count # 0
    /\ surface_capabilities.min_image_count + 1 > surface_capabilities.max_image_count
    /\ create_info.min_image_count = surface_capabilities.max_image_count

\* C24: the swapchain is created EXCLUSIVE with an empty list of families
\* exactly when the graphics and the present family are the same, and
\* CONCURRENT with exactly those two families listed otherwise.
C24_SharingMode ==
    SwapchainCreated =>
        LET gfx == phys_device_info.queue_family_indices.graphics
            present == phys_device_info.queue_family_indices.present
        IN  /\ create_info.image_sharing_mode \in {"EXCLUSIVE", "CONCURRENT"}
            /\ create_info.image_sharing_mode = "EXCLUSIVE" <=> gfx = present
            /\ create_info.image_sharing_mode = "EXCLUSIVE" =>
                  /\ create_info.queue_family_indices = <<>>
                  /\ create_info.queue_family_index_count = 0
            /\ create_info.image_sharing_mode = "CONCURRENT" =>
                  /\ create_info.queue_family_indices = <<gfx, present>>
                  /\ create_info.queue_family_index_count = 2

\* A swapchain shared by two different families.
C24_Witness ==
    /\ SwapchainCreated
    /\ phys_device_info.queue_family_indices.graphics
          # phys_device_info.queue_family_indices.present
    /\ create_info.image_sharing_mode = "CONCURRENT"
    /\ Len(create_info.queue_family_indices) = 2


-----------------------------------------------------------------------------
(* The shader modules of a mesh *)

\* The bytes a word occupies in memory, in the byte order of the target.
to_ne_bytes(word, endian) ==
    LET le == [k \in 1 .. 4 |-> (word \div (256 ^ (k - 1))) % 256]
    IN  IF endian = "little" THEN le ELSE [k \in 1 .. 4 |-> le[5 - k]]

\* The memory p_code points to: the bytes of its words, in order.
MemoryOf(words, endian) ==
    Flatten([i \in DOMAIN words |-> to_ne_bytes(words[i], endian)])

\* The bytes of the shader a module was created from.
CodeOf(module) ==
    IF module.stage = "vert" THEN vert_shader_compiled ELSE frag_shader_compiled

\* pack_to_u32s has panicked on the vertex shader, on the fragment shader.
VertPanicked == pc = "panicked" /\ Len(shader_modules) = 0

FragPanicked == pc = "panicked" /\ Len(shader_modules) = 1

\* pack_to_u32s has been called on the vertex shader, on the fragment shader.
VertPacked == pc \in {"create_frag_shader_module", "create_graphics_pipelines",
                      "mesh_data", "panicked"}

FragPacked == pc \in {"create_graphics_pipelines", "mesh_data"} \/ FragPanicked

C26_NothingCreatedBeforeShaderFailure ==
    pc = "panicked" =>
        /\ mesh_created = <<>>
        /\ shader_modules = <<>>


-----------------------------------------------------------------------------
(* The memory type of a buffer *)

\* find_memory_type has returned.
MemoryTypeFound == pc \in {"allocate_memory", "panicked"}

\* The indices of the memory types a buffer of these requirements can use.
SuitableMemoryTypes ==
    {i \in 0 .. (Len(mem_properties) - 1) :
        /\ (req_type \div (2 ^ i)) % 2 = 1
        /\ \A flag \in req_properties : flag \in mem_properties[i + 1]}

\* C27: find_memory_type returns the lowest index i such that bit i of the
\* required type mask is set and memory type i has every required flag, and
\* None exactly when there is no such index.
C27_FirstSuitableMemoryType ==
    MemoryTypeFound =>
        /\ memory_type_index = None <=> SuitableMemoryTypes = {}
        /\ memory_type_index # None =>
              /\ memory_type_index \in SuitableMemoryTypes
              /\ \A i \in SuitableMemoryTypes : memory_type_index <= i
        /\ pc = "panicked" <=> memory_type_index = None

\* Two types are suitable, after one that has only one of two required flags
\* and is allowed by the mask.
C27_Witness ==
    /\ MemoryTypeFound
    /\ Cardinality(SuitableMemoryTypes) = 2
    /\ Cardinality(req_properties) = 2
    /\ 0 \notin SuitableMemoryTypes
    /\ req_type % 2 = 1
    /\ mem_properties[1] \cap req_properties # {}
    /\ memory_type_index = 1


-----------------------------------------------------------------------------
(* The queues of the logical device *)

\* C28: the logical device is created with exactly one queue, of priority
\* 1.0, for each distinct family among the graphics and the present family:
\* one entry when they are the same family, two entries of different families
\* otherwise, never two entries of one family.
C28_OneQueuePerDistinctFamily ==
    pc = "device_created" =>
        LET infos == device.queue_create_infos
            gfx == phys_device_info.queue_family_indices.graphics
            present == phys_device_info.queue_family_indices.present
        IN  /\ {infos[i].queue_family_index : i \in DOMAIN infos} = {gfx, present}
            /\ Len(infos) = IF gfx = present THEN 1 ELSE 2
            /\ \A i, j \in DOMAIN infos :
                  infos[i].queue_family_index = infos[j].queue_family_index => i = j
            /\ \A i \in DOMAIN infos :
                  /\ infos[i].queue_count = 1
                  /\ infos[i].queue_priorities = <<"1.0">>

\* A device created with a queue of each of two families, the present family
\* being the lower one.
C28_Witness ==
    /\ pc = "device_created"
    /\ phys_device_info.queue_family_indices.present
         < phys_device_info.queue_family_indices.graphics
    /\ Len(device.queue_create_infos) = 2
    /\ device.queue_create_infos[1].queue_family_index
         = phys_device_info.queue_family_indices.present


-----------------------------------------------------------------------------
(* The steps of a frame and the resources of its slot *)

\* The position that follows p inside Renderer::present when the call at p
\* succeeds.
StepAfter(p) ==
    CASE p = "present"              -> "wait_for_fences"
      [] p = "wait_for_fences"      -> "acquire_next_image"
      [] p = "acquire_next_image"   -> "reset_fences"
      [] p = "reset_fences"         -> "reset_command_buffer"
      [] p = "reset_command_buffer" -> "begin_command_buffer"
      [] p = "begin_command_buffer" -> "record_draws"
      [] p = "record_draws"         -> "end_command_buffer"
      [] p = "end_command_buffer"   -> "queue_submit"
      [] p = "queue_submit"         -> "queue_present"
      [] p = "queue_present"        -> "loop"

\* The thread goes from position p to the position after it.
Steps(p) == pc = p /\ pc' = StepAfter(p)

\* Where slot s is in the life of a frame.
SlotPhase(s) ==
    IF InFlight(s) THEN "Submitted"
    ELSE IF current_frame = s /\ pc \in {"acquire_next_image", "reset_fences"}
         THEN "Acquiring"
    ELSE IF current_frame = s /\ pc \in {"reset_command_buffer", "begin_command_buffer",
                                          "record_draws", "end_command_buffer",
                                          "queue_submit"}
         THEN "Recording"
    ELSE "Idle"

PhaseOrder ==
    {<<"Idle", "Acquiring">>, <<"Acquiring", "Recording">>,
     <<"Recording", "Submitted">>, <<"Submitted", "Idle">>}

\* The fence of a slot is signaled while the slot is idle or acquiring, and
\* reset while it is recording or submitted.
FenceFollowsPhase ==
    failed_call = "none" =>
        \A s \in Slots :
            is_rendering[s] <=> SlotPhase(s) \in {"Idle", "Acquiring"}

\* Inside present() the thread only goes to the next position or panics, and
\* each operation of a frame is done by the step of its position.
FrameStepsInOrder ==
    /\ (pc \in FramePcs /\ pc' # pc) =>
          \/ pc' = StepAfter(pc)
          \/ pc' = "panicked" /\ failed_call' # "none"
    /\ waited' # waited <=> Steps("wait_for_fences")
    /\ (\E img \in Images : /\ swapchain_images[img] = "free"
                             /\ swapchain_images'[img] = "acquired")
          <=> Steps("acquire_next_image")
    /\ (\E s \in Slots : is_rendering[s] /\ ~is_rendering'[s])
          <=> Steps("reset_fences")
    /\ command_buffers' # command_buffers =>
          \/ Steps("reset_command_buffer")
          \/ Steps("begin_command_buffer")
          \/ Steps("record_draws")
          \/ Steps("end_command_buffer")
    /\ Len(graphics_queue') > Len(graphics_queue) <=> Steps("queue_submit")
    /\ Len(present_queue') > Len(present_queue) <=> Steps("queue_present")
    /\ current_frame' # current_frame <=> Steps("queue_present")

\* A slot changes phase only along Idle, Acquiring, Recording, Submitted, Idle.
PhasesInOrder ==
    failed_call' = "none" =>
        \A s \in Slots :
            SlotPhase(s)' # SlotPhase(s) => <<SlotPhase(s), SlotPhase(s)'>> \in PhaseOrder

\* The fence of a slot is reset only after the wait on it has returned and the
\* image of the frame has been acquired.
ResetAfterWaitAndAcquire ==
    \A s \in Slots :
        (is_rendering[s] /\ ~is_rendering'[s]) =>
            /\ s = current_frame
            /\ waited # <<>>
            /\ waited[Len(waited)] = s
            /\ swapchain_images[image_index] = "acquired"
            /\ image_available(s) \in acquire_pending \/ semaphore[image_available(s)] > 0

\* C29: every frame waits on the fence of its slot, acquires an image, resets
\* the fence, records the command buffer, submits, presents and rotates
\* current_frame, in that order; a slot goes from Idle (fence signaled) to
\* Acquiring, Recording, Submitted (fence reset) and back to Idle; the fence
\* is reset only after the wait has returned and the image has been acquired.
C29_FrameStepsAndSlotPhases ==
    /\ []FenceFollowsPhase
    /\ [][FrameStepsInOrder /\ PhasesInOrder /\ ResetAfterWaitAndAcquire]_vars

\* In the third frame or later, one slot is submitted while the other is
\* recording.
C29_Witness ==
    /\ frame >= FRAMES_IN_FLIGHT
    /\ failed_call = "none"
    /\ SlotPhase(current_frame) = "Recording"
    /\ SlotPhase(NextFrame(current_frame)) = "Submitted"
    /\ \A s \in Slots : ~is_rendering[s]

\* The slot of the present() call in progress: current_frame as it was when
\* the call began.
SlotOfCall == command_buffer

\* Inside present(), every resource in use is that of the slot of the call,
\* whose uniform buffer the last update_ubo wrote; every submission in flight
\* is made of the resources of one slot.
SameSlotInCall ==
    /\ (pc \in FramePcs \ {"present"} /\ failed_call = "none") =>
          /\ current_frame = SlotOfCall
          /\ ubo_written = SlotOfCall
          /\ pc # "wait_for_fences" => waited[Len(waited)] = SlotOfCall
          /\ pc \in {"end_command_buffer", "queue_submit"} =>
                command_buffers[SlotOfCall].desc_set = SlotOfCall
    /\ \A i \in 1 .. Len(graphics_queue) :
          LET sub == graphics_queue[i]
          IN  /\ sub.fence = sub.cmd
              /\ sub.wait = image_available(sub.cmd)
              /\ sub.signal = render_finished(sub.cmd)
              /\ command_buffers[sub.cmd].desc_set = sub.cmd

\* Each step of present() acts on the resources of the slot of the call.
StepsUseSlotOfCall ==
    /\ Steps("present") => SlotOfCall' = current_frame
    /\ Steps("acquire_next_image") =>
          acquire_pending' = acquire_pending \cup {image_available(SlotOfCall)}
    /\ \A s \in Slots :
          (is_rendering[s] /\ ~is_rendering'[s]) => s = SlotOfCall
    /\ \A s \in Slots :
          command_buffers'[s] # command_buffers[s] => s = SlotOfCall
    /\ Steps("queue_submit") =>
          LET sub == graphics_queue'[Len(graphics_queue')]
          IN  /\ sub.cmd = SlotOfCall
              /\ sub.fence = SlotOfCall
              /\ sub.wait = image_available(SlotOfCall)
              /\ sub.signal = render_finished(SlotOfCall)
    /\ (pc \in FramePcs \ {"present", "queue_present"}) => SlotOfCall' = SlotOfCall

\* C30: within one present() call, the fence waited on and reset, the
\* semaphore given to the acquire and waited on by the submission, the
\* command buffer recorded and submitted, the descriptor set bound, and the
\* semaphore and fence the submission signals are all those of the slot
\* current_frame named when the call began, which is the slot whose uniform
\* buffer the preceding update_ubo wrote.
C30_OneSlotPerPresentCall ==
    /\ []SameSlotInCall
    /\ [][StepsUseSlotOfCall]_vars

\* The second slot's frame is submitted with its own resources after
\* update_ubo wrote its uniform buffer.
C30_Witness ==
    /\ pc = "queue_present"
    /\ failed_call = "none"
    /\ current_frame = 1
    /\ ubo_written = 1
    /\ \E i \in 1 .. Len(graphics_queue) :
          /\ graphics_queue[i].cmd = 1
          /\ graphics_queue[i].fence = 1
          /\ command_buffers[1].desc_set = 1


-----------------------------------------------------------------------------
(* The image of a frame *)

\* The framebuffer whose attachment is the view of swapchain image number img.
FramebufferOfImage(img) ==
    CHOOSE fb \in {framebuffers[i] : i \in DOMAIN framebuffers} :
        \E v \in DOMAIN swapchain_image_views :
            /\ swapchain_image_views[v].handle = fb.attachment
            /\ swapchain_image_views[v].image = <<"image", img>>

\* The image index is one of the framebuffer list; once the render pass of the
\* frame is recorded, it is recorded on the framebuffer of the image acquired.
RendersIntoAcquiredImage ==
    /\ image_index \in 0 .. (Len(framebuffers) - 1)
    /\ (pc \in {"end_command_buffer", "queue_submit", "queue_present"}
          /\ failed_call = "none") =>
          /\ swapchain_images[image_index] = "acquired"
          /\ command_buffers[command_buffer].framebuffer
                = FramebufferOfImage(image_index).handle

\* The image index changes only when an acquire returns it, and the request
\* queue_present queues is for that index.
PresentsAcquiredImage ==
    /\ image_index' # image_index =>
          /\ Steps("acquire_next_image")
          /\ swapchain_images[image_index'] = "free"
    /\ Steps("acquire_next_image") =>
          /\ swapchain_images'[image_index'] = "acquired"
          /\ swapchain_images[image_index'] = "free"
    /\ Steps("queue_present") =>
          present_queue'[Len(present_queue')].image = image_index

\* C31: in every frame the framebuffer rendered into and the image index given
\* to queue_present are those of the image index that frame's acquire
\* returned, whatever the slot index current_frame is; the image index is
\* always an index of the framebuffer list.
C31_FrameUsesAcquiredImage ==
    /\ []RendersIntoAcquiredImage
    /\ [][PresentsAcquiredImage]_vars

\* A frame of slot 0 recorded on the framebuffer of the last image.
C31_Witness ==
    /\ pc = "queue_present"
    /\ failed_call = "none"
    /\ current_frame = 0
    /\ image_index = NumImages - 1
    /\ command_buffers[0].framebuffer = <<"framebuffer", NumImages - 1>>

(***************************************************************************)
(* No swapchain recreation                                                 *)
(***************************************************************************)

\* What present() was given by Renderer::new: the swapchain (its create info
\* and extent), the image views and the framebuffers made for it, with the
\* format the render pass was made for.
SwapchainObjects ==
    <<create_info, swapchain_extent, swapchain_format, present_mode,
      swapchain_image_views, framebuffers>>

\* A step of a present() call destroys nothing and leaves the swapchain
\* objects as they are: the per-slot fences and semaphores, destroyed only by
\* the teardown, are those of construction throughout.
PresentKeepsSwapchain ==
    pc \in FramePcs =>
        /\ SwapchainObjects' = SwapchainObjects
        /\ teardown_log' = teardown_log
        /\ drop_step' = drop_step

\* An acquire that returns Ok goes on to reset the fence of the slot, whatever
\* the flag it returned, and begin_frame returns the image index to present(),
\* which records the frame.
SuboptimalProceeds ==
    /\ (pc = "acquire_next_image" /\ failed_call' = "none" /\ pc' # pc) =>
          pc' = "reset_fences"
    /\ (out_of_date /\ pc' # pc /\ failed_call' = "none") =>
          /\ pc = "reset_fences"
          /\ pc' = "reset_command_buffer"
          /\ image_index' = image_index

\* C32: present() leaves the swapchain, its extent, its image views, the
\* framebuffers, the render pass and the per-slot synchronization objects
\* unchanged and destroys none of them; an acquire that reports its flag set
\* is treated as any other and the frame proceeds to presentation.
C32_PresentNeverRecreates ==
    /\ [][PresentKeepsSwapchain]_vars
    /\ [][SuboptimalProceeds]_vars

\* The acquire of a frame after the first has returned the flag set and
\* begin_frame is going on to reset the fence, nothing destroyed.
C32_Witness ==
    /\ pc = "reset_fences"
    /\ out_of_date
    /\ failed_call = "none"
    /\ frame >= 1
    /\ teardown_log = <<>>
    /\ Len(framebuffers) = NumImages

(***************************************************************************)
(* Every object destroyed once                                             *)
(***************************************************************************)

Created == {CreationOrder[i] : i \in 1 .. Len(CreationOrder)}

\* The calls of the teardown so far that destroy or free obj by its handle.
DestroysOf(obj) ==
    {i \in 1 .. Len(teardown_log) :
        IsDestroy(teardown_log[i]) /\ Object(teardown_log[i]) = obj}

\* obj is gone: destroyed or freed by its handle, or freed with its pool.
Released(obj) ==
    \/ DestroysOf(obj) # {}
    \/ \E pool \in PoolOf(obj) : DestroysOf(pool) # {}

\* No call names an object that was not created or that is gone already:
\* destroyed before, or freed with a pool destroyed before.
NothingDestroyedTwice ==
    \A i \in 1 .. Len(teardown_log) :
        IsDestroy(teardown_log[i]) =>
            /\ Object(teardown_log[i]) \in Created
            /\ \A j \in 1 .. (i - 1) :
                  IsDestroy(teardown_log[j]) =>
                      /\ Object(teardown_log[j]) # Object(teardown_log[i])
                      /\ Object(teardown_log[j]) \notin PoolOf(Object(teardown_log[i]))

\* When the teardown has returned every object created is gone.
NothingLeaked == pc = "exited" => \A obj \in Created : Released(obj)

\* The call that destroys the device comes after the release of every object
\* created from the device, the meshes' among them, and before the calls that
\* destroy the surface and the instance.
DeviceDestroyedLast ==
    \A d \in DestroysOf(<<"device", 0>>) :
        /\ \A obj \in Created :
              <<"device", 0>> \in CreatedFrom(obj) =>
                  /\ Released(obj)
                  /\ \A i \in DestroysOf(obj) : i < d
        /\ \A m \in 1 .. Len(Meshes) :
              \A i \in 1 .. Len(MeshObjects(m - 1)) :
                  \E j \in DestroysOf(MeshObjects(m - 1)[i]) : j < d
        /\ \A i \in DestroysOf(<<"surface", 0>>) \cup DestroysOf(<<"instance", 0>>) :
              d < i

\* C33: the teardown destroys or frees every object Renderer::new and the
\* construction of the meshes left alive exactly once, none twice and none
\* left over; the device goes only after every object created from it,
\* each mesh's buffers, memory, pipeline and pipeline layout included, and the
\* surface and the instance go after the device.
C33_EveryObjectDestroyedOnce ==
    /\ NothingDestroyedTwice
    /\ NothingLeaked
    /\ DeviceDestroyedLast

\* The teardown has returned after at least one frame was drawn, the last
\* mesh's pipeline layout destroyed before the device.
C33_Witness ==
    /\ pc = "exited"
    /\ frame >= 1
    /\ Len(teardown_log) = Len(DropCalls)
    /\ \E i \in DestroysOf(<<"pipeline_layout", Len(Meshes) - 1>>),
          d \in DestroysOf(<<"device", 0>>) : i < d

(***************************************************************************)
(* present() returns                                                       *)
(***************************************************************************)

\* The fence the thread waits on gets signaled: it was created signaled, or
\* the frame that reset it submitted work that signals it.
FenceWaitEnds == (pc = "wait_for_fences") ~> is_rendering[current_frame]

\* The acquire gets an image to return.
AcquireEnds ==
    (pc = "acquire_next_image")
        ~> (pc # "acquire_next_image" \/ \E img \in Images : swapchain_images[img] = "free")

\* A frame that has reset the fence of its slot submits work that signals
\* that fence, unless a call of the frame fails first.
ResetFollowedBySubmit ==
    (pc = "reset_command_buffer")
        ~> \/ failed_call # "none"
           \/ /\ pc = "queue_present"
              /\ \E i \in 1 .. Len(graphics_queue) :
                    graphics_queue[i].fence = current_frame

\* The present() call is over: it returned to the loop or a call in it failed.
PresentReturns == (pc = "present") ~> (pc = "loop" \/ failed_call # "none")

\* C34: with a device that completes what is submitted and a presentation
\* engine that hands images back, every present() call comes to its end; the
\* wait on the fence of the slot does not last for ever, the fence being
\* created signaled and every reset of it being followed in the same frame by
\* a submission that signals it.
C34_PresentTerminates ==
    /\ PresentReturns
    /\ FenceWaitEnds
    /\ AcquireEnds
    /\ ResetFollowedBySubmit

\* The thread waits on a fence that a frame has reset and whose signal is yet
\* to come from a submission in flight.
C34_Witness ==
    /\ pc = "wait_for_fences"
    /\ frame >= FRAMES_IN_FLIGHT
    /\ ~is_rendering[current_frame]
    /\ \E i \in 1 .. Len(graphics_queue) : graphics_queue[i].fence = current_frame

(***************************************************************************)
(* The semaphores of a slot across frames                                  *)
(***************************************************************************)

\* The presentation requests queued and not yet processed that wait on h.
PresentsWaitingOn(h) ==
    {i \in 1 .. Len(present_queue) : present_queue[i].wait = h}

\* The submissions in flight that wait on h, and those that signal h.
SubmitsWaitingOn(h) ==
    {i \in 1 .. Len(graphics_queue) :
        graphics_queue[i].wait = h /\ graphics_queue[i].st = "queued"}

SubmitsSignalling(h) ==
    {i \in 1 .. Len(graphics_queue) : graphics_queue[i].signal = h}

\* A queue_submit that returns Ok finds no presentation request still waiting
\* on the render_finished semaphore it is to signal, and no signal of a
\* render_finished semaphore arrives while the request of an earlier frame
\* waits on it or an earlier signal is unconsumed.
RenderFinishedConsumed ==
    /\ Steps("queue_submit") =>
          PresentsWaitingOn(render_finished(current_frame)) = {}
    /\ \A s \in Slots :
          semaphore'[render_finished(s)] > semaphore[render_finished(s)] =>
              /\ semaphore[render_finished(s)] = 0
              /\ \A i \in PresentsWaitingOn(render_finished(s)) :
                    present_queue[i].frame = Head(graphics_queue).frame

\* C35: when a submission that will signal render_finished[s] is queued, the
\* presentation request of the slot's previous frame has consumed that
\* semaphore; render_finished[s] is never signaled again while an earlier
\* request still waits on it.
C35_RenderFinishedConsumedBeforeSubmit == [][RenderFinishedConsumed]_vars

\* C36: when the thread calls the acquire with image_available[s], the
\* semaphore is unsignaled, no acquire is yet to signal it and no submission
\* is yet to wait on it; the submission of the slot's previous frame has
\* completed.
C36_ImageAvailableIdleAtAcquire ==
    (pc = "acquire_next_image" /\ failed_call = "none") =>
        LET h == image_available(current_frame)
        IN  /\ semaphore[h] = 0
            /\ h \notin acquire_pending
            /\ SubmitsWaitingOn(h) = {}
            /\ \A i \in 1 .. Len(graphics_queue) : graphics_queue[i].wait # h
            /\ frame >= FRAMES_IN_FLIGHT => (frame - FRAMES_IN_FLIGHT) \in completed

\* The thread is about to acquire for a slot used before, the frame of the
\* other slot still in flight.
C36_Witness ==
    /\ pc = "acquire_next_image"
    /\ failed_call = "none"
    /\ frame >= FRAMES_IN_FLIGHT
    /\ graphics_queue # <<>>
    /\ (frame - FRAMES_IN_FLIGHT) \in completed

(***************************************************************************)
(* The indices of the meshes                                               *)
(***************************************************************************)

\* Every index of mesh m names a vertex of m.
IndicesBelowVertexCount(m) ==
    \A i \in 1 .. Len(m.indices) : m.indices[i] < VertexCount(m)

\* The grid alone: four vertices and the four indices that name them for
\* every iteration of the loop.
GridIndicesBelowVertexCount ==
    pc # "create_grid_mesh" =>
        /\ Len(grid.indices) = 4 * (2 * grid_cells + 1)
        /\ IndicesBelowVertexCount(grid)

\* C37: every index of the mesh create_grid_mesh returns and of the mesh
\* create_crosshair_mesh returns is smaller than the number of vertices of
\* the mesh, the number of its floats divided by two, so that an indexed draw
\* reads no vertex beyond the vertex buffer.
C37_IndicesBelowVertexCount ==
    /\ IndicesBelowVertexCount(grid)
    /\ IndicesBelowVertexCount(crosshair)

(***************************************************************************)
(* The axes of the InputHandler                                            *)
(***************************************************************************)

\* The axis a key moves along and the direction it gives the axis.
OnForwardAxis(k) == k \in {"W", "S"}

OnRightAxis(k) == k \in {"D", "A"}

DirectionOf(k) == IF k \in {"W", "D"} THEN 1 ELSE -1

\* A press gives the axis of the key the direction of the key and leaves the
\* other axis; a release makes the axis of the key 0 if the axis has the
\* direction of the key, and changes nothing otherwise.
KeySetsAxis ==
    LET k == event'.key
    IN  /\ event'.kind = "press" =>
              /\ forward' = IF OnForwardAxis(k) THEN DirectionOf(k) ELSE forward
              /\ right' = IF OnRightAxis(k) THEN DirectionOf(k) ELSE right
        /\ event'.kind = "release" =>
              /\ forward' = IF OnForwardAxis(k) /\ forward = DirectionOf(k)
                            THEN 0 ELSE forward
              /\ right' = IF OnRightAxis(k) /\ right = DirectionOf(k)
                          THEN 0 ELSE right

AxesInRange == forward \in {-1, 0, 1} /\ right \in {-1, 0, 1}

\* C38: under any events forward and right stay in {-1, 0, 1}; a press sets
\* the axis of the key to the key's direction; a release sets the axis to 0
\* only if the axis has the direction of the released key.
C38_AxesFollowKeys ==
    /\ []AxesInRange
    /\ [][KeySetsAxis]_vars

\* W pressed, S pressed, W released: forward is still -1.
C38_Witness ==
    /\ event = [kind |-> "release", key |-> "W"]
    /\ forward = -1

(***************************************************************************)
(* The cached view matrix                                                  *)
(***************************************************************************)

\* The cached matrix of a camera that needs no recalculation is the matrix
\* of its pitch, yaw, roll and position.
CachedViewCurrent ==
    ~view_needs_recalc => view = recalc_view_matrix(pitch, yaw, roll, position)

\* What view() has just returned is the matrix of the camera's state.
ViewReturnsCurrent ==
    camera_op = "view" => view = recalc_view_matrix(pitch, yaw, roll, position)

\* C39: under any calls of set_position, update and view, view() returns the
\* matrix of the current pitch, yaw, roll and position, and the cached matrix
\* is that matrix whenever view_needs_recalc is false.
C39_ViewMatchesCamera ==
    /\ CachedViewCurrent
    /\ ViewReturnsCurrent

=============================================================================
